---- MODULE Spec2Model ----
(***************************************************************************)
(* Model of the chiptatop Telegram bot: the per-chat conversation state    *)
(* machine of internal/bot/bot.go, the retry loops that wrap the train     *)
(* service, and the CSRF refresh-and-retry of the ticket client            *)
(* (internal/services/train/client.go).                                    *)
(*                                                                         *)
(* Representation choices                                                  *)
(*  - A text is a sequence of characters.  The reserved reply-keyboard     *)
(*    labels are one-symbol sequences whose symbol stands for the whole    *)
(*    label; a date token "YYYY-MM-DD" is the one-symbol sequence of its   *)
(*    day number.                                                          *)
(*  - A time.Time is [set, abs, utc]: abs is the absolute instant in hours,*)
(*    utc tells whether its location is UTC or the process's local zone.   *)
(*  - An error is [chain, status, text, ctx, body]: chain lists the        *)
(*    wrapping layers outermost first, text is the set of the substrings   *)
(*    "403" and "CSRF" that occur in err.Error(), ctx tells whether the    *)
(*    chain ends in context.DeadlineExceeded, body is the response body    *)
(*    quoted by a status error.                                            *)
(*  - One inbound update is handled to completion before the next one; a   *)
(*    handler that searches is stepped through its provider calls and      *)
(*    backoff waits (pc = "attempt", "backoff", "done").                   *)
(*  - headers is the credential part of the client's request headers;    *)
(*    results is the results block of the handler in flight, and sent is   *)
(*    the list of messages in which the handler of the latest update has   *)
(*    told the outcome of its search (results, no trains, or an error).    *)
(*  - test is the run of a self-test of the train package                 *)
(*    (test_response.go): its input and what it printed.                   *)
(*  - offset is the parity of the offset of the updates channel, that is,  *)
(*    of the number of updates taken from it so far.                       *)
(*  - client is the language part of the ticket client: its language      *)
(*    field and the Accept-Language entry of its request headers.          *)
(*  - cfg is the configuration the bot was constructed with, and           *)
(*    tokenRequests the number of requests New has sent to the token       *)
(*    endpoint.                                                            *)
(*  - stop tells whether a shutdown signal is pending on the stop channel  *)
(*    of Run; pc = "stopped" once Run has returned.                        *)
(***************************************************************************)
EXTENDS Integers, Sequences, FiniteSets, TLC

VARIABLES userStates, now, zone, pc, run, offset, headers, results, sent, test,
          client, stop, tokenRequests, cfg

vars == <<userStates, now, zone, pc, run, offset, headers, results, sent, test,
          client, stop, tokenRequests, cfg>>

(***************************************************************************)
(* Bounds of the model                                                     *)
(***************************************************************************)
StartNow == 20
TickHours == 4
MaxTicks == 1
MaxPickDay == 1
MaxTextLen == 6
MaxDateLen == 17
MaxCars == 2
MaxTariffs == 2
MaxFree == 1
MaxPrice == 2

Chats == {1, 2}
Zones == {0, 5}
PickDays == 0..MaxPickDay

(***************************************************************************)
(* Texts                                                                   *)
(***************************************************************************)
SearchTrainsLabel == <<"[Search Trains]">>
SearchByDateLabel == <<"[Search by Date]">>
ViewStationsLabel == <<"[View Stations]">>
ChangeLanguageLabel == <<"[Change Language]">>
HelpLabel == <<"[Help]">>
MainMenuLabel == <<"[Back to Main Menu]">>
LanguageLabels == {<<"[O'zbekcha]">>, <<"[Russkiy]">>, <<"[English]">>}

Labels ==
  {SearchTrainsLabel, SearchByDateLabel, ViewStationsLabel, ChangeLanguageLabel,
   HelpLabel, MainMenuLabel} \cup LanguageLabels

FreeTexts ==
  { <<"a">>, <<"A">>, <<" ", "a">>, <<" ">>, <<"a", " ", "b">> }

Texts == Labels \cup FreeTexts

NewLine == "\n"

\* Texts of two tokens separated by a line break, of three tokens ending in a
\* date or in something else, and of four tokens.
ShortcutTexts ==
  { <<"a", NewLine, "b">>, <<"a", " ", "b", " ", "1">>, <<"a", " ", "b", " ", "x">>,
    <<"a", " ", "b", " ", "c", " ", "1">> }

AllTexts == Texts \cup ShortcutTexts

\* unicode.IsSpace, for the characters of the model.
IsSpace(c) == c \in {" ", NewLine}

Uppers ==
  <<"A", "B", "C", "D", "E", "F", "G", "H", "I", "J", "K", "L", "M",
    "N", "O", "P", "Q", "R", "S", "T", "U", "V", "W", "X", "Y", "Z">>

Lowers ==
  <<"a", "b", "c", "d", "e", "f", "g", "h", "i", "j", "k", "l", "m",
    "n", "o", "p", "q", "r", "s", "t", "u", "v", "w", "x", "y", "z">>

\* unicode.ToLower and unicode.ToUpper for the letters of the model.
Lower(c) ==
  IF \E i \in 1..Len(Uppers) : Uppers[i] = c
  THEN Lowers[CHOOSE i \in 1..Len(Uppers) : Uppers[i] = c]
  ELSE c

Upper(c) ==
  IF \E i \in 1..Len(Lowers) : Lowers[i] = c
  THEN Uppers[CHOOSE i \in 1..Len(Lowers) : Lowers[i] = c]
  ELSE c

ToLower(s) == [i \in 1..Len(s) |-> Lower(s[i])]

ToUpper(s) == [i \in 1..Len(s) |-> Upper(s[i])]

RECURSIVE TrimLeft(_)
TrimLeft(s) == IF s # <<>> /\ IsSpace(Head(s)) THEN TrimLeft(Tail(s)) ELSE s

RECURSIVE TrimRight(_)
TrimRight(s) ==
  IF s # <<>> /\ IsSpace(s[Len(s)]) THEN TrimRight(SubSeq(s, 1, Len(s) - 1)) ELSE s

TrimSpace(s) == TrimRight(TrimLeft(s))

\* Variant of ContainsSpace that accepts every whitespace character.
ContainsWhitespace(s) == \E i \in 1..Len(s) : IsSpace(s[i])

\* strings.Contains(s, " ")
ContainsSpace(s) == \E i \in 1..Len(s) : s[i] = " "

RECURSIVE Fields(_)
Fields(s) ==
  LET t == TrimLeft(s)
      n == IF \E i \in 1..Len(t) : IsSpace(t[i])
           THEN (CHOOSE i \in 1..Len(t) :
                   IsSpace(t[i]) /\ \A j \in 1..(i - 1) : ~IsSpace(t[j])) - 1
           ELSE Len(t)
  IN IF t = <<>> THEN <<>>
     ELSE <<SubSeq(t, 1, n)>> \o Fields(SubSeq(t, n + 1, Len(t)))

(***************************************************************************)
(* Time                                                                    *)
(***************************************************************************)
HoursPerDay == 24

ZeroTime == [set |-> FALSE, abs |-> 0, utc |-> TRUE]

TimeNow == [set |-> TRUE, abs |-> now, utc |-> FALSE]

TimeDate(day) == [set |-> TRUE, abs |-> day * HoursPerDay, utc |-> TRUE]

AddDate(t, days) == [t EXCEPT !.abs = @ + days * HoursPerDay]

Truncate(t) == [t EXCEPT !.abs = (@ \div HoursPerDay) * HoursPerDay]

Before(t, u) == t.abs < u.abs

Format(t) == (t.abs + (IF t.utc THEN 0 ELSE zone)) \div HoursPerDay

\* The date tokens: the token of day d is the one-character text Digits[d + 1].
Digits == <<"0", "1", "2", "3", "4", "5", "6", "7", "8", "9">>

\* time.Parse("2006-01-02", token)
Parse(token) ==
  IF Len(token) = 1 /\ \E d \in 1..Len(Digits) : Digits[d] = token[1]
  THEN [ok |-> TRUE,
        date |-> TimeDate((CHOOSE d \in 1..Len(Digits) : Digits[d] = token[1]) - 1)]
  ELSE [ok |-> FALSE, date |-> ZeroTime]

(***************************************************************************)
(* Trains of a search response (stations.go) and the self-test that prints *)
(* what their helper methods return (test_response.go)                     *)
(***************************************************************************)
NoTest == [name |-> "", input |-> <<>>, output |-> <<>>, done |-> FALSE]

\* t.DepartureDate[11:16], t.ArrivalDate[11:16], t.DepartureDate[:10]: a
\* string is the sequence of its bytes.
GetDepartureTime(t) ==
  IF Len(t.DepartureDate) >= 16 THEN SubSeq(t.DepartureDate, 12, 16) ELSE t.DepartureDate

GetArrivalTime(t) ==
  IF Len(t.ArrivalDate) >= 16 THEN SubSeq(t.ArrivalDate, 12, 16) ELSE t.ArrivalDate

\* Variant of GetDate with the threshold of the time extractors.
GetDateSixteen(t) ==
  IF Len(t.DepartureDate) >= 16 THEN SubSeq(t.DepartureDate, 1, 10) ELSE t.DepartureDate

GetDate(t) ==
  IF Len(t.DepartureDate) >= 10 THEN SubSeq(t.DepartureDate, 1, 10) ELSE t.DepartureDate

\* Variant of HasAvailableSeats that looks at the totals of the cars.
HasAvailableSeatsByCar(t) == \E i \in 1..Len(t.Cars) : t.Cars[i].FreeSeats > 0

HasAvailableSeats(t) ==
  \E i \in 1..Len(t.Cars) :
    \E j \in 1..Len(t.Cars[i].Tariffs) : t.Cars[i].Tariffs[j].FreeSeats > 0

RECURSIVE GetTotalFreeSeats(_)
GetTotalFreeSeats(t) ==
  IF t.Cars = <<>> THEN 0
  ELSE Head(t.Cars).FreeSeats + GetTotalFreeSeats([t EXCEPT !.Cars = Tail(@)])

\* The tariffs of a train in the order of the two nested loops.
RECURSIVE AllTariffs(_)
AllTariffs(cars) ==
  IF cars = <<>> THEN <<>> ELSE Head(cars).Tariffs \o AllTariffs(Tail(cars))

\* The loop body of lines 449-453 over the tariffs from number i on.
RECURSIVE minPriceLoop(_, _, _)
minPriceLoop(tariffs, i, minPrice) ==
  IF i > Len(tariffs) THEN minPrice
  ELSE IF tariffs[i].FreeSeats > 0 /\ (minPrice = 0 \/ tariffs[i].Tariff < minPrice)
  THEN minPriceLoop(tariffs, i + 1, tariffs[i].Tariff)
  ELSE minPriceLoop(tariffs, i + 1, minPrice)

GetMinPrice(t) == minPriceLoop(AllTariffs(t.Cars), 1, 0)

\* Lines 82-90 of TestAPIResponse for the first train of the response.
TestAPIResponse ==
  /\ test.name = "TestAPIResponse"
  /\ ~test.done
  /\ test' = [test EXCEPT
       !.done = TRUE,
       !.output = [DepartureTime |-> GetDepartureTime(test.input),
                   ArrivalTime |-> GetArrivalTime(test.input),
                   Date |-> GetDate(test.input),
                   HasAvailableSeats |-> HasAvailableSeats(test.input),
                   TotalFreeSeats |-> GetTotalFreeSeats(test.input),
                   MinPrice |-> GetMinPrice(test.input)]]
  /\ UNCHANGED <<userStates, now, zone, pc, run, offset, headers, results, sent,
               client, stop, tokenRequests, cfg>>

(***************************************************************************)
(* Station directory (stations.go)                                         *)
(***************************************************************************)
\* Variant of the table in which the last record repeats the code and an
\* alias of the first.
GetAllStationsAmbiguous ==
  <<
    [Code |-> <<"2", "9", "0", "0", "6", "8", "0">>,
     Name |-> <<"A", "n", "d", "i", "j", "o", "n">>,
     NameUz |-> <<"A", "n", "d", "i", "j", "o", "n">>,
     NameEn |-> <<"A", "n", "d", "i", "j", "a", "n">>,
     Aliases |-> <<<<"a", "n", "d", "i", "j", "a", "n">>, <<"a", "n", "d", "i", "z", "h", "a", "n">>>>],
    [Code |-> <<"2", "9", "0", "0", "8", "0", "0">>,
     Name |-> <<"B", "u", "x", "o", "r", "o">>,
     NameUz |-> <<"B", "u", "x", "o", "r", "o">>,
     NameEn |-> <<"B", "u", "k", "h", "a", "r", "a">>,
     Aliases |-> <<<<"b", "u", "k", "h", "a", "r", "a">>, <<"b", "o", "k", "h", "a", "r", "a">>>>],
    [Code |-> <<"2", "9", "0", "0", "6", "8", "0">>,
     Name |-> <<"A", "n", "d", "i", "j", "o", "n", "2">>,
     NameUz |-> <<"A", "n", "d", "i", "j", "o", "n", "2">>,
     NameEn |-> <<"A", "n", "d", "i", "j", "a", "n">>,
     Aliases |-> <<<<"a", "n", "d", "i", "j", "a", "n">>, <<"a", "n", "d", "i", "z", "h", "a", "n">>>>]
  >>

GetAllStations ==
  <<
    [Code |-> <<"2", "9", "0", "0", "6", "8", "0">>,
     Name |-> <<"A", "n", "d", "i", "j", "o", "n">>,
     NameUz |-> <<"A", "n", "d", "i", "j", "o", "n">>,
     NameEn |-> <<"A", "n", "d", "i", "j", "a", "n">>,
     Aliases |-> <<<<"a", "n", "d", "i", "j", "a", "n">>, <<"a", "n", "d", "i", "z", "h", "a", "n">>>>],
    [Code |-> <<"2", "9", "0", "0", "8", "0", "0">>,
     Name |-> <<"B", "u", "x", "o", "r", "o">>,
     NameUz |-> <<"B", "u", "x", "o", "r", "o">>,
     NameEn |-> <<"B", "u", "k", "h", "a", "r", "a">>,
     Aliases |-> <<<<"b", "u", "k", "h", "a", "r", "a">>, <<"b", "o", "k", "h", "a", "r", "a">>>>],
    [Code |-> <<"2", "9", "0", "0", "8", "5", "0">>,
     Name |-> <<"G", "u", "l", "i", "s", "t", "o", "n">>,
     NameUz |-> <<"G", "u", "l", "i", "s", "t", "o", "n">>,
     NameEn |-> <<"G", "u", "l", "i", "s", "t", "a", "n">>,
     Aliases |-> <<<<"g", "u", "l", "i", "s", "t", "a", "n">>>>],
    [Code |-> <<"2", "9", "0", "0", "7", "2", "0">>,
     Name |-> <<"J", "i", "z", "z", "a", "x">>,
     NameUz |-> <<"J", "i", "z", "z", "a", "x">>,
     NameEn |-> <<"J", "i", "z", "z", "a", "k", "h">>,
     Aliases |-> <<<<"j", "i", "z", "z", "a", "k", "h">>, <<"d", "j", "i", "z", "a", "k">>>>],
    [Code |-> <<"2", "9", "0", "0", "9", "2", "0">>,
     Name |-> <<"M", "a", "r", "g", "i", "l", "o", "n">>,
     NameUz |-> <<"M", "a", "r", "g", "i", "l", "o", "n">>,
     NameEn |-> <<"M", "a", "r", "g", "i", "l", "a", "n">>,
     Aliases |-> <<<<"m", "a", "r", "g", "i", "l", "a", "n">>, <<"m", "a", "r", "g", "h", "i", "l", "a", "n">>>>],
    [Code |-> <<"2", "9", "0", "0", "9", "4", "0">>,
     Name |-> <<"N", "a", "m", "a", "n", "g", "a", "n">>,
     NameUz |-> <<"N", "a", "m", "a", "n", "g", "a", "n">>,
     NameEn |-> <<"N", "a", "m", "a", "n", "g", "a", "n">>,
     Aliases |-> <<>>],
    [Code |-> <<"2", "9", "0", "0", "9", "3", "0">>,
     Name |-> <<"N", "a", "v", "o", "i", "y">>,
     NameUz |-> <<"N", "a", "v", "o", "i", "y">>,
     NameEn |-> <<"N", "a", "v", "o", "i">>,
     Aliases |-> <<<<"n", "a", "v", "o", "i">>, <<"n", "a", "v", "o", "i", "y">>>>],
    [Code |-> <<"2", "9", "0", "0", "9", "7", "0">>,
     Name |-> <<"N", "u", "k", "u", "s">>,
     NameUz |-> <<"N", "u", "k", "u", "s">>,
     NameEn |-> <<"N", "u", "k", "u", "s">>,
     Aliases |-> <<>>],
    [Code |-> <<"2", "9", "0", "0", "6", "9", "3">>,
     Name |-> <<"P", "o", "p">>,
     NameUz |-> <<"P", "o", "p">>,
     NameEn |-> <<"P", "o", "p">>,
     Aliases |-> <<>>],
    [Code |-> <<"2", "9", "0", "0", "7", "5", "0">>,
     Name |-> <<"Q", "a", "r", "s", "h", "i">>,
     NameUz |-> <<"Q", "a", "r", "s", "h", "i">>,
     NameEn |-> <<"K", "a", "r", "s", "h", "i">>,
     Aliases |-> <<<<"k", "a", "r", "s", "h", "i">>, <<"q", "a", "r", "s", "h", "i">>>>],
    [Code |-> <<"2", "9", "0", "0", "8", "8", "0">>,
     Name |-> <<"Q", "o", "'", "q", "o", "n">>,
     NameUz |-> <<"Q", "o", "'", "q", "o", "n">>,
     NameEn |-> <<"K", "o", "k", "a", "n", "d">>,
     Aliases |-> <<<<"k", "o", "k", "a", "n", "d">>, <<"q", "o", "q", "o", "n">>, <<"k", "o", "k", "h", "a", "n", "d">>>>],
    [Code |-> <<"2", "9", "0", "0", "7", "0", "0">>,
     Name |-> <<"S", "a", "m", "a", "r", "q", "a", "n", "d">>,
     NameUz |-> <<"S", "a", "m", "a", "r", "q", "a", "n", "d">>,
     NameEn |-> <<"S", "a", "m", "a", "r", "k", "a", "n", "d">>,
     Aliases |-> <<<<"s", "a", "m", "a", "r", "k", "a", "n", "d">>, <<"s", "a", "m", "a", "r", "q", "a", "n", "d">>>>],
    [Code |-> <<"2", "9", "0", "0", "2", "5", "5">>,
     Name |-> <<"T", "e", "r", "m", "i", "z">>,
     NameUz |-> <<"T", "e", "r", "m", "i", "z">>,
     NameEn |-> <<"T", "e", "r", "m", "e", "z">>,
     Aliases |-> <<<<"t", "e", "r", "m", "e", "z">>, <<"t", "e", "r", "m", "i", "z">>>>],
    [Code |-> <<"2", "9", "0", "0", "0", "0", "0">>,
     Name |-> <<"T", "o", "s", "h", "k", "e", "n", "t">>,
     NameUz |-> <<"T", "o", "s", "h", "k", "e", "n", "t">>,
     NameEn |-> <<"T", "a", "s", "h", "k", "e", "n", "t">>,
     Aliases |-> <<<<"t", "a", "s", "h", "k", "e", "n", "t">>, <<"t", "o", "s", "h", "k", "e", "n", "t">>>>],
    [Code |-> <<"2", "9", "0", "0", "7", "9", "0">>,
     Name |-> <<"U", "r", "g", "e", "n", "c", "h">>,
     NameUz |-> <<"U", "r", "g", "a", "n", "c", "h">>,
     NameEn |-> <<"U", "r", "g", "e", "n", "c", "h">>,
     Aliases |-> <<<<"u", "r", "g", "a", "n", "c", "h">>, <<"u", "r", "g", "e", "n", "c", "h">>>>],
    [Code |-> <<"2", "9", "0", "0", "1", "7", "2">>,
     Name |-> <<"X", "i", "v", "a">>,
     NameUz |-> <<"X", "i", "v", "a">>,
     NameEn |-> <<"K", "h", "i", "v", "a">>,
     Aliases |-> <<<<"k", "h", "i", "v", "a">>, <<"x", "i", "v", "a">>>>]
  >>

\* Variant of stationLoop that compares the names of the table as they are
\* written.
RECURSIVE stationLoopExact(_, _, _)
stationLoopExact(stations, lowerName, i) ==
  IF i > Len(stations) THEN [found |-> FALSE, station |-> <<>>]
  ELSE LET station == stations[i]
       IN IF \/ station.Name = lowerName
             \/ station.NameUz = lowerName
             \/ station.NameEn = lowerName
             \/ \E k \in 1..Len(station.Aliases) : station.Aliases[k] = lowerName
          THEN [found |-> TRUE, station |-> station]
          ELSE stationLoopExact(stations, lowerName, i + 1)

\* The loop of lines 206-220 from record i on; the result is nil or the
\* first record one of whose names or aliases, lowercased, is lowerName.
RECURSIVE stationLoop(_, _, _)
stationLoop(stations, lowerName, i) ==
  IF i > Len(stations) THEN [found |-> FALSE, station |-> <<>>]
  ELSE LET station == stations[i]
       IN IF \/ ToLower(station.Name) = lowerName
             \/ ToLower(station.NameUz) = lowerName
             \/ ToLower(station.NameEn) = lowerName
             \/ \E k \in 1..Len(station.Aliases) : ToLower(station.Aliases[k]) = lowerName
          THEN [found |-> TRUE, station |-> station]
          ELSE stationLoop(stations, lowerName, i + 1)

GetStationByName(name) == stationLoop(GetAllStations, ToLower(name), 1)

RECURSIVE codeLoop(_, _, _)
codeLoop(stations, code, i) ==
  IF i > Len(stations) THEN [found |-> FALSE, station |-> <<>>]
  ELSE IF stations[i].Code = code THEN [found |-> TRUE, station |-> stations[i]]
  ELSE codeLoop(stations, code, i + 1)

GetStationByCode(code) == codeLoop(GetAllStations, code, 1)

IsDigit(c) == \E i \in 1..Len(Digits) : Digits[i] = c

\* Service.GetStationCode (service.go is not part of the sources at hand):
\* an empty token and a token that starts with a digit are codes already;
\* any other token is lowercased, trimmed and looked up, and is returned
\* unchanged when no station has that name.
GetStationCode(token) ==
  IF token = <<>> \/ IsDigit(Head(token)) THEN token
  ELSE LET station == GetStationByName(TrimSpace(ToLower(token)))
       IN IF station.found THEN station.station.Code ELSE token

\* One case of TestStationCodes (test_response.go, line 118).
TestStationCodes ==
  /\ test.name = "TestStationCodes"
  /\ ~test.done
  /\ test' = [test EXCEPT !.done = TRUE, !.output = GetStationCode(test.input)]
  /\ UNCHANGED <<userStates, now, zone, pc, run, offset, headers, results, sent,
               client, stop, tokenRequests, cfg>>

\* A lookup of a record by its code.
LookupByCode ==
  /\ test.name = "GetStationByCode"
  /\ ~test.done
  /\ test' = [test EXCEPT !.done = TRUE, !.output = GetStationByCode(test.input)]
  /\ UNCHANGED <<userStates, now, zone, pc, run, offset, headers, results, sent,
               client, stop, tokenRequests, cfg>>

(***************************************************************************)
(* Conversation state                                                      *)
(***************************************************************************)
ZeroState ==
  [CurrentStep |-> "", FromStation |-> <<>>, ToStation |-> <<>>, SearchDate |-> ZeroTime]

getUserState(states, chatID) ==
  IF chatID \in DOMAIN states THEN states ELSE states @@ (chatID :> ZeroState)

\* Variant of resetUserState that clears the step and keeps the selections.
resetStepOnly(states, chatID) ==
  [c \in DOMAIN states \cup {chatID} |->
     IF c # chatID THEN states[c]
     ELSE IF c \in DOMAIN states THEN [states[c] EXCEPT !.CurrentStep = ""]
     ELSE ZeroState]

\* Variant of resetUserState that resets every chat.
resetAllUserStates(states, chatID) ==
  [c \in DOMAIN states \cup {chatID} |-> ZeroState]

resetUserState(states, chatID) ==
  [c \in DOMAIN states \cup {chatID} |-> IF c = chatID THEN ZeroState ELSE states[c]]

handleMainMenuButton(states, chatID) == states

\* Variant of handleSearchTrainsButton without the reset of the chat.
handleSearchTrainsButtonNoReset(states, chatID) ==
  [states EXCEPT
     ![chatID].CurrentStep = "select_from_station",
     ![chatID].SearchDate = TimeNow]

handleSearchTrainsButton(states, chatID) ==
  [resetUserState(states, chatID) EXCEPT
     ![chatID].CurrentStep = "select_from_station",
     ![chatID].SearchDate = TimeNow]

handleSearchByDateButton(states, chatID) ==
  [resetUserState(states, chatID) EXCEPT
     ![chatID].CurrentStep = "select_date",
     ![chatID].SearchDate = AddDate(TimeNow, 1)]

(***************************************************************************)
(* Errors                                                                  *)
(***************************************************************************)
NoErr == [chain |-> <<>>, status |-> 0, text |-> {}, ctx |-> FALSE, body |-> {}]

Wrap(layer, marks, e) == [e EXCEPT !.chain = <<layer>> \o @, !.text = @ \cup marks]

Contains(err, marker) == marker \in err.text

DeadlineExceeded ==
  [chain |-> <<"context deadline exceeded">>, status |-> 0, text |-> {}, ctx |-> TRUE,
   body |-> {}]

StatusText(status) == IF status = 403 THEN {"403"} ELSE {}

(***************************************************************************)
(* The provider as seen by the client: what one HTTP exchange can yield    *)
(***************************************************************************)
Timeout == 30

Bodies == {{}, {"CSRF"}, {"403"}}

\* A token of n characters.
Tok(n) == [i \in 1..n |-> "t"]

\* An answer has a status, a body (the set of the markers "403" and "CSRF"
\* that occur in it), the trains and the top-level fields of the JSON value
\* in the body, and the token of its Set-Cookie header.
TransportFailure(marks) ==
  [kind |-> "transport", status |-> 0, body |-> marks, trains |-> 0, token |-> <<>>,
   shape |-> ""]

Response(status, body, trains, token) ==
  [kind |-> "response", status |-> status, body |-> body, trains |-> trains, token |-> token,
   shape |-> "data"]

\* A 200 answer whose body is not the JSON of a result: "error" has a
\* top-level error field and no data, "both" has the two, "neither" has
\* none of them, "invalid" is not JSON.
Shaped(shape) ==
  [Response(200, {}, IF shape = "both" THEN 1 ELSE 0, <<>>) EXCEPT !.shape = shape]

OddShapes == {"error", "both", "neither", "invalid"}

\* A provider is the set of answers it can give to a search POST and to a
\* token request, and the set of durations (seconds) an exchange can take.
FullProvider ==
  [posts |-> {TransportFailure(m) : m \in {{}, {"403"}}}
               \cup {Response(200, {}, n, <<>>) : n \in {0, 1}}
               \cup {Shaped(shape) : shape \in OddShapes}
               \cup {Response(204, {}, 0, <<>>)}
               \cup {Response(st, b, 0, <<>>) : st \in {403, 500}, b \in Bodies},
   tokens |-> {TransportFailure({})}
               \cup {Response(200, {}, 0, tok) : tok \in {<<>>, Tok(9)}}
               \cup {Response(500, b, 0, <<>>) : b \in {{}, {"403"}}},
   durations |-> {0, 28, 30}]

\* A provider that answers every POST with 200 or 500.
PlainProvider ==
  [posts |-> {Response(200, {}, n, <<>>) : n \in {0, 1}} \cup {Response(500, {}, 0, <<>>)},
   tokens |-> {Response(200, {}, 0, Tok(9))},
   durations |-> {0, 30}]

\* The token endpoint at the construction of the bot.
StartupProvider ==
  [posts |-> {},
   tokens |-> {TransportFailure({})}
               \cup {Response(200, {}, 0, tok) : tok \in {<<>>, Tok(2), Tok(8), Tok(9)}}
               \cup {Response(st, {}, 0, Tok(9)) : st \in {204, 500}},
   durations |-> {0, 30}]

\* A token with a "$" in it.
DollarTok == Tok(8) \o <<"$", "t">>

\* A provider that rejects the token, answers 200 or 500, and hands out
\* tokens.
CookieProvider ==
  [posts |-> {Response(403, {"CSRF"}, 0, <<>>), Response(200, {}, 1, <<>>),
              Response(500, {}, 0, <<>>)},
   tokens |-> {TransportFailure({})}
               \cup {Response(200, {}, 0, tok) : tok \in {Tok(9), DollarTok}},
   durations |-> {0}]

\* http.Client.Do under the search's context: an exchange that would end at
\* or after the deadline fails at the deadline with the context's error.
Do(elapsed, outcome, d) ==
  IF elapsed + d >= Timeout
  THEN [resp |-> TransportFailure({}),
        err |-> Wrap("transport", {}, DeadlineExceeded),
        elapsed |-> Timeout]
  ELSE IF outcome.kind = "transport"
  THEN [resp |-> outcome,
        err |-> [chain |-> <<"transport">>, status |-> 0, text |-> outcome.body,
                 ctx |-> FALSE, body |-> {}],
        elapsed |-> elapsed + d]
  ELSE [resp |-> outcome, err |-> NoErr, elapsed |-> elapsed + d]

(***************************************************************************)
(* Ticket client                                                           *)
(***************************************************************************)
makeRequest(elapsed, outcome, d) ==
  LET r == Do(elapsed, outcome, d)
  IN IF r.err # NoErr
     THEN [r EXCEPT !.err = Wrap("failed to make request", {}, r.err)]
     ELSE r

RefreshCSRFToken(elapsed, outcome, d) ==
  LET r == Do(elapsed, outcome, d)
  IN IF r.err # NoErr
     THEN [token |-> <<>>, elapsed |-> r.elapsed,
           err |-> Wrap("failed to make CSRF request", {"CSRF"}, r.err)]
     ELSE IF r.resp.status # 200
     THEN [token |-> <<>>, elapsed |-> r.elapsed,
           err |-> [chain |-> <<"CSRF request failed with status">>,
                    status |-> r.resp.status,
                    text |-> {"CSRF"} \cup StatusText(r.resp.status) \cup r.resp.body,
                    ctx |-> FALSE, body |-> r.resp.body]]
     ELSE IF r.resp.token # <<>>
     THEN [token |-> r.resp.token, elapsed |-> r.elapsed, err |-> NoErr]
     ELSE [token |-> <<>>, elapsed |-> r.elapsed,
           err |-> [chain |-> <<"XSRF-TOKEN not found in response">>,
                    status |-> 0, text |-> {}, ctx |-> FALSE, body |-> {}]]

\* The body of the first response is consumed by the CSRF test of a 403, so
\* the status error built afterwards from that response has an empty body.
StatusError(resp, bodyRead) ==
  [chain |-> <<"API request failed with status">>,
   status |-> resp.status,
   text |-> StatusText(resp.status) \cup (IF bodyRead THEN {} ELSE resp.body),
   ctx |-> FALSE,
   body |-> IF bodyRead THEN {} ELSE resp.body]

\* The result of one call of the client, with what the call did: the number
\* of POSTs and token requests issued, whether the first POST was answered
\* 403 with a CSRF marker, whether the token was refreshed, and the status of
\* the last response received to a POST (0 when there was none); token is
\* the token obtained by the refresh; body and shape are those of the
\* response that reached the status check of line 221.
CallResult(err, trains, posts, refreshes, elapsed, csrf403, refreshed, status) ==
  [err |-> err, trains |-> trains, posts |-> posts, refreshes |-> refreshes,
   elapsed |-> elapsed, csrf403 |-> csrf403, refreshed |-> refreshed,
   status |-> status, token |-> <<>>, body |-> {}, shape |-> ""]

NoCall == CallResult(NoErr, 0, 0, 0, 0, FALSE, FALSE, 0)

\* Lines 221-231: status check and decoding of the final response.
DecodeError ==
  [chain |-> <<"failed to decode response">>, status |-> 0, text |-> {}, ctx |-> FALSE,
   body |-> {}]

\* resp.StatusCode != http.StatusOK
statusNotOK(status) == status # 200

decodeResponse(resp, bodyRead, posts, refreshes, elapsed, csrf403) ==
  LET c == IF statusNotOK(resp.status)
           THEN CallResult(StatusError(resp, bodyRead), 0, posts, refreshes, elapsed,
                           csrf403, csrf403, resp.status)
           ELSE IF resp.shape = "invalid"
           THEN CallResult(DecodeError, 0, posts, refreshes, elapsed, csrf403, csrf403,
                           resp.status)
           ELSE CallResult(NoErr, resp.trains, posts, refreshes, elapsed, csrf403, csrf403,
                           resp.status)
  IN [c EXCEPT !.body = resp.body, !.shape = resp.shape]

\* Variant of retryRequest that treats a 403/CSRF answer to the retried POST
\* like one to the first POST: it refreshes and posts once more.
retryRequestAgain(elapsed, P) ==
  { LET m2 == makeRequest(elapsed, r2, d3)
    IN IF m2.err # NoErr
       THEN CallResult(m2.err, 0, 2, 1, m2.elapsed, TRUE, TRUE, 0)
       ELSE IF m2.resp.status = 403 /\ "CSRF" \in m2.resp.body
       THEN CallResult(StatusError(m2.resp, TRUE), 0, 3, 2, m2.elapsed, TRUE, TRUE, 403)
       ELSE decodeResponse(m2.resp, FALSE, 2, 1, m2.elapsed, TRUE)
    : r2 \in P.posts, d3 \in P.durations }

\* Lines 212-218: the retried POST after a successful refresh.
retryRequest(elapsed, P) ==
  { LET m2 == makeRequest(elapsed, r2, d3)
    IN IF m2.err # NoErr
       THEN CallResult(m2.err, 0, 2, 1, m2.elapsed, TRUE, TRUE, 0)
       ELSE decodeResponse(m2.resp, FALSE, 2, 1, m2.elapsed, TRUE)
    : r2 \in P.posts, d3 \in P.durations }

\* Lines 186-219: the 403/CSRF path.
refreshAndRetry(elapsed, P) ==
  UNION { LET rf == RefreshCSRFToken(elapsed, q, d2)
          IN IF rf.err # NoErr
             THEN {CallResult(Wrap("failed to refresh CSRF token", {"CSRF"}, rf.err),
                              0, 1, 1, rf.elapsed, TRUE, FALSE, 403)}
             ELSE {[c EXCEPT !.token = rf.token] : c \in retryRequest(rf.elapsed, P)}
          : q \in P.tokens, d2 \in P.durations }

\* Client.SearchTrains: the set of results one call started at `elapsed` can
\* have, over all answers of the provider.
SearchTrains(elapsed, P) ==
  UNION { LET m1 == makeRequest(elapsed, r1, d1)
          IN IF m1.err # NoErr
             THEN {CallResult(m1.err, 0, 1, 0, m1.elapsed, FALSE, FALSE, 0)}
             ELSE IF m1.resp.status = 403 /\ "CSRF" \in m1.resp.body
             THEN refreshAndRetry(m1.elapsed, P)
             ELSE {decodeResponse(m1.resp, m1.resp.status = 403, 1, 0, m1.elapsed, FALSE)}
          : r1 \in P.posts, d1 \in P.durations }

(***************************************************************************)
(* Credentials: the X-XSRF-TOKEN and Cookie entries of the client's headers *)
(***************************************************************************)
\* A cookie string is the list of its pairs <<name, value>>.  A name is a
\* sequence of symbols, the symbol XsrfCookie standing for the substring
\* "XSRF-TOKEN"; a value is a sequence of characters.
XsrfCookie == "XSRF-TOKEN"

XsrfName == <<XsrfCookie>>

\* NewClient: neither header is present.
NoHeaders == [token |-> <<>>, cookie |-> [set |-> FALSE, entries |-> <<>>]]

\* The languages of the provider; the empty string is the unspecified one.
LanguageUzbek == "uz"

LanguageRussian == "ru"

LanguageEnglish == "en"

\* No client has been created yet.
NoClient == [language |-> "", acceptLanguage |-> ""]

\* NewClient: the language field and the Accept-Language entry of the headers.
NewClient(language) ==
  LET l == IF language = "" THEN LanguageUzbek ELSE language
  IN [language |-> l, acceptLanguage |-> l]

\* Variant of SetLanguage that stores the language as given.
SetLanguageAsGiven(c, language) ==
  [c EXCEPT !.language = language, !.acceptLanguage = language]

SetLanguage(c, language) ==
  LET l == IF language = "" THEN LanguageUzbek ELSE language
  IN [c EXCEPT !.language = l, !.acceptLanguage = l]

\* SetAuthHeaders
SetAuthHeaders(xsrfToken, cookies) ==
  [token |-> xsrfToken, cookie |-> [set |-> TRUE, entries |-> cookies]]

\* A configuration with both credentials: RAILWAY_XSRF_TOKEN and
\* RAILWAY_COOKIES.
EnvConfig ==
  [RailwayXSRFToken |-> <<"e">>,
   RailwayCookies |-> << <<XsrfName, <<"e">> >>, << <<"session">>, <<"s">> >> >>]

\* Configurations whose cookie string has no XSRF-TOKEN pair, and one with a
\* pair whose name ends in XSRF-TOKEN.
OtherConfigs ==
  { [RailwayXSRFToken |-> <<"e">>, RailwayCookies |-> << << <<"session">>, <<"s">> >> >>],
    [RailwayXSRFToken |-> <<"e">>,
     RailwayCookies |-> << << <<"MY-", XsrfCookie>>, <<"s">> >> >>] }

\* Configurations that lack one of the two credentials, or both.
NoConfig == [RailwayXSRFToken |-> <<>>, RailwayCookies |-> <<>>]

PartialConfigs ==
  { NoConfig,
    [NoConfig EXCEPT !.RailwayXSRFToken = <<"e">>],
    [NoConfig EXCEPT !.RailwayCookies = << <<XsrfName, <<"e">> >> >>] }

EnvHeaders == SetAuthHeaders(EnvConfig.RailwayXSRFToken, EnvConfig.RailwayCookies)

IsNameChar(c) == c \notin {"$", "%"}

\* The name that follows a "$" of a replacement template: the longest run of
\* letters, digits and underscores.
RECURSIVE NameLen(_)
NameLen(s) == IF s # <<>> /\ IsNameChar(Head(s)) THEN 1 + NameLen(Tail(s)) ELSE 0

\* Regexp.Expand for a pattern without capturing groups: "$$" is a "$",
\* "$name" is empty, any other "$" is kept.
RECURSIVE Expand(_)
Expand(template) ==
  IF template = <<>> THEN <<>>
  ELSE IF Head(template) # "$" THEN <<Head(template)>> \o Expand(Tail(template))
  ELSE LET rest == Tail(template)
       IN IF rest # <<>> /\ Head(rest) = "$" THEN <<"$">> \o Expand(Tail(rest))
          ELSE IF NameLen(rest) > 0
          THEN Expand(SubSeq(rest, NameLen(rest) + 1, Len(rest)))
          ELSE <<"$">> \o Expand(rest)

\* The pattern XSRF-TOKEN=[^;]* matches in a pair whose name ends in
\* XSRF-TOKEN.
MatchesXsrf(entry) == entry[1][Len(entry[1])] = XsrfCookie

\* Lines 199-210 of Client.SearchTrains: ReplaceAllString puts the expanded
\* template "XSRF-TOKEN=" + newToken in the place of every match; without a
\* match the new pair is put in front of the cookie string.
patchCookie(cookie, newToken) ==
  IF cookie.set
  THEN IF \E i \in 1..Len(cookie.entries) : MatchesXsrf(cookie.entries[i])
       THEN [cookie EXCEPT !.entries =
               [i \in 1..Len(@) |-> IF MatchesXsrf(@[i])
                                    THEN <<@[i][1], Expand(newToken)>> ELSE @[i]]]
       ELSE [cookie EXCEPT !.entries = << <<XsrfName, newToken>> >> \o @]
  ELSE [set |-> TRUE, entries |-> << <<XsrfName, newToken>> >>]

\* Variant of refreshHeaders that stores the token of the call whether or not
\* the refresh has succeeded.
refreshHeadersAlways(h, c) ==
  [token |-> c.token, cookie |-> patchCookie(h.cookie, c.token)]

\* Lines 196-210: the headers after a call of the client.
refreshHeaders(h, c) ==
  IF c.refreshed THEN [token |-> c.token, cookie |-> patchCookie(h.cookie, c.token)] ELSE h

\* The length of the cookie string "XSRF-TOKEN=" + token.
CookieLen(token) == 11 + Len(token)

\* Client.InitializeCredentials with the answer of the token endpoint: the
\* error returned, the headers left behind, and whether the slice expressions
\* of lines 128-129 are out of range.
InitializeCredentials(h, outcome, d) ==
  LET rf == RefreshCSRFToken(0, outcome, d)
  IN IF rf.err # NoErr
     THEN [err |-> Wrap("failed to initialize CSRF token", {"CSRF"}, rf.err),
           headers |-> h, panic |-> FALSE]
     ELSE [err |-> NoErr,
           headers |-> [token |-> rf.token,
                        cookie |-> [set |-> TRUE,
                                    entries |-> << <<XsrfName, rf.token>> >>]],
           panic |-> Len(rf.token) < 8 \/ CookieLen(rf.token) < 20]

(***************************************************************************)
(* Train service (service.go is not part of the sources at hand): the      *)
(* service hands the client's result to its caller; "available only"       *)
(* keeps the trains that have free seats.                                  *)
(***************************************************************************)
ServiceSearchTrains(elapsed, P) == SearchTrains(elapsed, P)

FindAvailableTrains(elapsed, P) ==
  UNION { { [c EXCEPT !.trains = k] : k \in 0..c.trains } : c \in SearchTrains(elapsed, P) }

(***************************************************************************)
(* Outbound result messages                                                *)
(***************************************************************************)
\* The cap of sendLongMessage (4096 in the source), scaled to the texts of
\* the model.
maxLength == 3

\* strings.Split(text, "\n")
RECURSIVE Split(_)
Split(text) ==
  IF \E i \in 1..Len(text) : text[i] = NewLine
  THEN LET i == CHOOSE k \in 1..Len(text) :
                  text[k] = NewLine /\ \A j \in 1..(k - 1) : text[j] # NewLine
       IN <<SubSeq(text, 1, i - 1)>> \o Split(SubSeq(text, i + 1, Len(text)))
  ELSE <<text>>

\* strings.Join(parts, "\n")
RECURSIVE Join(_)
Join(parts) ==
  IF parts = <<>> THEN <<>>
  ELSE IF Len(parts) = 1 THEN parts[1]
  ELSE parts[1] \o <<NewLine>> \o Join(Tail(parts))

\* The loop of lines 1143-1155 from line number i on, with the parts
\* completed so far and the content of the string builder.
RECURSIVE splitLoop(_, _, _, _, _)
splitLoop(lines, i, parts, currentPart, cap) ==
  IF i > Len(lines)
  THEN IF Len(currentPart) > 0 THEN Append(parts, currentPart) ELSE parts
  ELSE LET line == lines[i]
           flush == Len(currentPart) + Len(line) + 1 > cap /\ Len(currentPart) > 0
           parts1 == IF flush THEN Append(parts, currentPart) ELSE parts
           part1 == IF flush THEN <<>> ELSE currentPart
           part2 == IF Len(part1) > 0 THEN part1 \o <<NewLine>> \o line ELSE line
       IN splitLoop(lines, i + 1, parts1, part2, cap)

splitMessage(text, cap) ==
  IF Len(text) <= cap THEN <<text>> ELSE splitLoop(Split(text), 1, <<>>, <<>>, cap)

sendLongMessage(text) ==
  IF Len(text) <= maxLength THEN <<text>> ELSE splitMessage(text, maxLength)

\* The results block of n trains (the formatter is in service.go): one line
\* per train.
FormatSearchResults(n) == Join([i \in 1..n |-> <<"x">>])

\* The messages in which a handler sends the results block of a search that
\* found trains: lines
\* 920-943 of handleSearchRequest, lines 1105-1107 of performTrainSearch.
sendResults(wrapper, block) ==
  IF wrapper = "searchTrainsWithRetry" THEN <<block>> ELSE sendLongMessage(block)

(***************************************************************************)
(* A handler in flight                                                     *)
(***************************************************************************)
NoParams == [From |-> <<>>, To |-> <<>>, Date |-> ZeroTime]

NoRet == [err |-> NoErr, trains |-> 0]

NoRun ==
  [chat |-> 0, caller |-> "", wrapper |-> "", params |-> NoParams,
   attempt |-> 0, calls |-> 0, posts |-> 0, refreshes |-> 0, elapsed |-> 0,
   lastErr |-> NoErr,
   call |-> NoCall, errs |-> <<>>, waits |-> <<>>, ret |-> NoRet]

StartRun(chatID, caller, wrapper, from, to, date) ==
  [NoRun EXCEPT !.chat = chatID, !.caller = caller, !.wrapper = wrapper,
                !.params = [From |-> from, To |-> to, Date |-> date],
                !.attempt = 1]

\* Lines 836-855: the search request is announced and the retry loop entered
\* under a context that expires after Timeout seconds.
handleSearchRequest(chatID, from, to, date, caller) ==
  /\ pc' = "attempt"
  /\ run' = StartRun(chatID, caller, "searchTrainsWithRetry", from, to, date)

\* Variant of performTrainSearch that searches as the guided flow does.
performTrainSearchAsRequest(chatID, from, to, date, caller) ==
  /\ pc' = "attempt"
  /\ run' = StartRun(chatID, caller, "searchTrainsWithRetry", from, to, date)

\* Lines 1050-1068.
performTrainSearch(chatID, from, to, date, caller) ==
  /\ pc' = "attempt"
  /\ run' = StartRun(chatID, caller, "findAvailableTrainsWithRetry", from, to, date)

(***************************************************************************)
(* Retry loops                                                             *)
(***************************************************************************)
\* Variant of maxRetries: one attempt more.
maxRetriesFour == 3 + 1

maxRetries == 3

\* Variant of isAuthError that looks for the status code only.
isAuthErrorStatusOnly(err) == Contains(err, "403")

isAuthError(err) == Contains(err, "403") \/ Contains(err, "CSRF")

ctxErr(elapsed) == elapsed >= Timeout

backoffDelay(attempt) == attempt

\* Variant of shouldBreak that goes on after the third attempt.
shouldBreakLater(attempt, err, elapsed) ==
  \/ isAuthError(err)
  \/ ctxErr(elapsed)
  \/ attempt = maxRetries + 1

\* The three "break" tests of the loop body, in source order.
shouldBreak(attempt, err, elapsed) ==
  \/ isAuthError(err)
  \/ ctxErr(elapsed)
  \/ attempt = maxRetries

exhaustedError(wrapper, lastErr) ==
  Wrap(IF wrapper = "searchTrainsWithRetry"
       THEN "failed to search trains after 3 attempts"
       ELSE "failed to find available trains after 3 attempts", {}, lastErr)

\* One iteration of the loop, from the service call to the return, the break
\* or the entry of the backoff select.
retryIteration(c) ==
  LET r1 == [run EXCEPT !.calls = @ + 1, !.posts = @ + c.posts,
                        !.refreshes = @ + c.refreshes, !.elapsed = c.elapsed, !.call = c]
      r2 == [r1 EXCEPT !.lastErr = c.err, !.errs = Append(@, c.err)]
  IN /\ headers' = refreshHeaders(headers, c)
     /\ IF c.err = NoErr
        THEN /\ run' = [r1 EXCEPT !.ret = [err |-> NoErr, trains |-> c.trains]]
             /\ results' = IF c.trains > 0 THEN FormatSearchResults(c.trains) ELSE results
             /\ pc' = "done"
        ELSE IF shouldBreak(run.attempt, c.err, c.elapsed)
        THEN /\ run' = [r2 EXCEPT !.ret = [err |-> exhaustedError(run.wrapper, r2.lastErr),
                                           trains |-> 0]]
             /\ UNCHANGED results
             /\ pc' = "done"
        ELSE /\ run' = r2
             /\ UNCHANGED results
             /\ pc' = "backoff"

searchTrainsWithRetry(P) ==
  /\ pc = "attempt"
  /\ run.wrapper = "searchTrainsWithRetry"
  /\ \E c \in ServiceSearchTrains(run.elapsed, P) : retryIteration(c)
  /\ UNCHANGED <<userStates, now, zone, test, client, stop, tokenRequests, cfg, offset, sent>>

findAvailableTrainsWithRetry(P) ==
  /\ pc = "attempt"
  /\ run.wrapper = "findAvailableTrainsWithRetry"
  /\ \E c \in FindAvailableTrains(run.elapsed, P) : retryIteration(c)
  /\ UNCHANGED <<userStates, now, zone, test, client, stop, tokenRequests, cfg, offset, sent>>

\* The select of lines 1223-1228 / 1279-1284: the context's Done channel
\* against time.After(delay); when both are ready either may be chosen.
backoffWait ==
  /\ pc = "backoff"
  /\ LET delay == backoffDelay(run.attempt)
     IN \/ /\ run.elapsed + delay >= Timeout
           /\ run' = [run EXCEPT !.elapsed = Timeout,
                                 !.ret = [err |-> DeadlineExceeded, trains |-> 0]]
           /\ pc' = "done"
        \/ /\ run.elapsed + delay <= Timeout
           /\ run' = [run EXCEPT !.elapsed = @ + delay,
                                 !.waits = Append(@, delay),
                                 !.attempt = @ + 1]
           /\ pc' = "attempt"
  /\ UNCHANGED <<userStates, now, zone, test, client, stop, tokenRequests, cfg,
                 offset, headers, results, sent>>

\* The rest of the handler once the retry loop has returned: the result or
\* error message is sent, handleSearchRequest resets the chat when no train
\* was found (line 890), and handleStationSelection resets it after the
\* search (line 404).
\* Variant of afterSearch without the reset of line 404.
afterSearchNoReset(states, r) ==
  IF r.wrapper = "searchTrainsWithRetry" /\ r.ret.err = NoErr /\ r.ret.trains = 0
  THEN resetUserState(states, r.chat)
  ELSE states

afterSearch(states, r) ==
  LET s1 == IF r.wrapper = "searchTrainsWithRetry" /\ r.ret.err = NoErr /\ r.ret.trains = 0
            THEN resetUserState(states, r.chat)
            ELSE states
  IN IF r.caller = "handleStationSelection" THEN resetUserState(s1, r.chat) ELSE s1

AuthenticationErrorMessage == <<"[Authentication Error]">>
SearchFailedMessage == <<"[Search Failed]">>
SearchErrorMessage == <<"[Search Error]">>
NoTrainsMessage == <<"[No available trains found]">>

ErrorMessages == {AuthenticationErrorMessage, SearchFailedMessage, SearchErrorMessage}

\* strings.Contains(err.Error(), "failed to search trains")
ContainsFailedToSearch(err) ==
  \E i \in 1..Len(err.chain) : err.chain[i] = "failed to search trains after 3 attempts"

\* Lines 859-874 and 1072-1087: the text of the error message.
ErrorMessage(err) ==
  IF Contains(err, "403") \/ Contains(err, "CSRF") THEN AuthenticationErrorMessage
  ELSE IF ContainsFailedToSearch(err) THEN SearchFailedMessage
  ELSE SearchErrorMessage

\* Variant of outcomeMessages that tells nothing when the context has
\* expired.
outcomeMessagesQuietTimeout(r, block) ==
  IF r.ret.err # NoErr
  THEN IF r.ret.err.ctx THEN <<>> ELSE <<ErrorMessage(r.ret.err)>>
  ELSE IF r.ret.trains = 0 THEN <<NoTrainsMessage>>
  ELSE sendResults(r.wrapper, block)

\* Lines 856-943 and 1069-1107: what the handler sends once the retry loop
\* has returned.
outcomeMessages(r, block) ==
  IF r.ret.err # NoErr THEN <<ErrorMessage(r.ret.err)>>
  ELSE IF r.ret.trains = 0 THEN <<NoTrainsMessage>>
  ELSE sendResults(r.wrapper, block)

finishSearch ==
  /\ pc = "done"
  /\ userStates' = afterSearch(userStates, run)
  /\ pc' = "loop"
  /\ run' = NoRun
  /\ sent' = outcomeMessages(run, results)
  /\ results' = <<>>
  /\ UNCHANGED <<now, zone, test, client, stop, tokenRequests, cfg, offset, headers>>

(***************************************************************************)
(* Guided flow                                                             *)
(***************************************************************************)
\* Variant of selectFromStation that stores the text as received.
selectFromStationUntrimmed(states, chatID, text) ==
  IF TrimSpace(text) = <<>>
  THEN states
  ELSE [states EXCEPT ![chatID].FromStation = text,
                      ![chatID].CurrentStep = "select_to_station"]

\* Variant of selectFromStation without the validation of the name.
selectFromStationUnchecked(states, chatID, text) ==
  [states EXCEPT ![chatID].FromStation = TrimSpace(text),
                 ![chatID].CurrentStep = "select_to_station"]

\* Lines 297-313: the origin step.
selectFromStation(states, chatID, text) ==
  LET stationName == TrimSpace(text)
  IN IF stationName = <<>>
     THEN states
     ELSE [states EXCEPT ![chatID].FromStation = stationName,
                         ![chatID].CurrentStep = "select_to_station"]

\* Lines 358-372: the destination step up to the storing of the destination.
selectToStation(states, chatID, text) ==
  LET stationName == TrimSpace(text)
  IN IF stationName = <<>>
     THEN states
     ELSE [states EXCEPT ![chatID].ToStation = stationName]

\* Variant of sameStation that ignores letter case.
sameStationEqualFold(st) == ToLower(st.FromStation) = ToLower(st.ToStation)

\* Line 375.
sameStation(st) == st.FromStation = st.ToStation

\* Variant of handleStationSelection that ignores a text received in a
\* step other than the two station steps.
handleStationSelectionIgnoring(states, chatID, text) ==
  LET step == states[chatID].CurrentStep
      s2 == selectToStation(states, chatID, text)
  IN IF step = "select_from_station"
     THEN /\ userStates' = selectFromStation(states, chatID, text)
          /\ UNCHANGED <<pc, run>>
     ELSE IF step = "select_to_station"
     THEN IF TrimSpace(text) = <<>> \/ sameStation(s2[chatID])
          THEN /\ userStates' = s2
               /\ UNCHANGED <<pc, run>>
          ELSE /\ userStates' = s2
               /\ handleSearchRequest(chatID, s2[chatID].FromStation, s2[chatID].ToStation,
                                      s2[chatID].SearchDate, "handleStationSelection")
     ELSE /\ userStates' = states
          /\ UNCHANGED <<pc, run>>

handleStationSelection(states, chatID, text) ==
  LET step == states[chatID].CurrentStep
      s2 == selectToStation(states, chatID, text)
  IN IF step = "select_from_station"
     THEN /\ userStates' = selectFromStation(states, chatID, text)
          /\ UNCHANGED <<pc, run>>
     ELSE IF step = "select_to_station"
     THEN IF TrimSpace(text) = <<>> \/ sameStation(s2[chatID])
          THEN /\ userStates' = s2
               /\ UNCHANGED <<pc, run>>
          ELSE /\ userStates' = s2
               /\ handleSearchRequest(chatID, s2[chatID].FromStation, s2[chatID].ToStation,
                                      s2[chatID].SearchDate, "handleStationSelection")
     ELSE /\ userStates' = handleMainMenuButton(resetUserState(states, chatID), chatID)
          /\ UNCHANGED <<pc, run>>

\* Lines 649-667: a date button of the calendar.
selectDate(states, chatID, day) ==
  LET created == getUserState(states, chatID)
      selectedDate == TimeDate(day)
  IN IF Before(selectedDate, Truncate(TimeNow))
     THEN created
     ELSE [created EXCEPT ![chatID].SearchDate = selectedDate,
                          ![chatID].CurrentStep = "select_from_station"]

(***************************************************************************)
(* Inbound updates, one action per branch of the dispatchers               *)
(***************************************************************************)
OnSearchTrainsButton(chatID) ==
  /\ pc = "loop"
  /\ userStates' = handleSearchTrainsButton(getUserState(userStates, chatID), chatID)
  /\ offset' = 1 - offset
  /\ UNCHANGED <<now, zone, test, client, stop, tokenRequests, cfg, pc, run, headers, results>>
  /\ sent' = <<>>

\* Variant of OnSearchByDateButton that does not wait for the handler in
\* flight.
OnSearchByDateButtonAnytime(chatID) ==
  /\ userStates' = handleSearchByDateButton(getUserState(userStates, chatID), chatID)
  /\ offset' = 1 - offset
  /\ UNCHANGED <<now, zone, test, client, stop, tokenRequests, cfg, pc, run, headers, results>>
  /\ sent' = <<>>

OnSearchByDateButton(chatID) ==
  /\ pc = "loop"
  /\ userStates' = handleSearchByDateButton(getUserState(userStates, chatID), chatID)
  /\ offset' = 1 - offset
  /\ UNCHANGED <<now, zone, test, client, stop, tokenRequests, cfg, pc, run, headers, results>>
  /\ sent' = <<>>

OnMainMenuText(chatID) ==
  /\ pc = "loop"
  /\ userStates' = handleMainMenuButton(getUserState(userStates, chatID), chatID)
  /\ offset' = 1 - offset
  /\ UNCHANGED <<now, zone, test, client, stop, tokenRequests, cfg, pc, run, headers, results>>
  /\ sent' = <<>>

OnMainMenuCallback(chatID) ==
  /\ pc = "loop"
  /\ userStates' = handleMainMenuButton(userStates, chatID)
  /\ offset' = 1 - offset
  /\ UNCHANGED <<now, zone, test, client, stop, tokenRequests, cfg, pc, run, headers, results>>
  /\ sent' = <<>>

\* The language of a language choice (lines 229-234).
LanguageOf(text) ==
  CASE text = <<"[O'zbekcha]">> -> LanguageUzbek
    [] text = <<"[Russkiy]">> -> LanguageRussian
    [] text = <<"[English]">> -> LanguageEnglish

\* Lines 946-948: the language of the train service, that is, of its client,
\* is changed.
handleLanguageChange(chatID, language) == client' = SetLanguage(client, language)

OnLanguageButton(chatID, text) ==
  /\ pc = "loop"
  /\ text \in LanguageLabels
  /\ userStates' = getUserState(userStates, chatID)
  /\ handleLanguageChange(chatID, LanguageOf(text))
  /\ offset' = 1 - offset
  /\ UNCHANGED <<now, zone, test, stop, tokenRequests, cfg, pc, run, headers, results>>
  /\ sent' = <<>>

\* View Stations, Change Language and Help.
OnInfoButton(chatID, text) ==
  /\ pc = "loop"
  /\ text \in {ViewStationsLabel, ChangeLanguageLabel, HelpLabel}
  /\ userStates' = getUserState(userStates, chatID)
  /\ offset' = 1 - offset
  /\ UNCHANGED <<now, zone, test, client, stop, tokenRequests, cfg, pc, run, headers, results>>
  /\ sent' = <<>>

\* Default branch of handleTextMessage, CurrentStep # "".
OnStepText(chatID, text) ==
  /\ pc = "loop"
  /\ text \notin Labels
  /\ getUserState(userStates, chatID)[chatID].CurrentStep # ""
  /\ handleStationSelection(getUserState(userStates, chatID), chatID, text)
  /\ offset' = 1 - offset
  /\ UNCHANGED <<now, zone, test, client, stop, tokenRequests, cfg, headers, results>>
  /\ sent' = <<>>

\* Default branch of handleTextMessage, CurrentStep = "": the legacy
\* "from to" and "from to date" shortcuts, or the unrecognized-input answer.
OnIdleText(chatID, text) ==
  /\ pc = "loop"
  /\ text \notin Labels
  /\ getUserState(userStates, chatID)[chatID].CurrentStep = ""
  /\ userStates' = getUserState(userStates, chatID)
  /\ LET parts == Fields(text)
     IN IF ContainsSpace(text) /\ Len(parts) = 2
        THEN handleSearchRequest(chatID, parts[1], parts[2], TimeNow, "handleTextMessage")
        ELSE IF ContainsSpace(text) /\ Len(parts) = 3 /\ Parse(parts[3]).ok
        THEN handleSearchRequest(chatID, parts[1], parts[2], Parse(parts[3]).date,
                                 "handleTextMessage")
        ELSE UNCHANGED <<pc, run>>
  /\ offset' = 1 - offset
  /\ UNCHANGED <<now, zone, test, client, stop, tokenRequests, cfg, headers, results>>
  /\ sent' = <<>>

OnDateCallback(chatID, day) ==
  /\ pc = "loop"
  /\ userStates' = selectDate(userStates, chatID, day)
  /\ offset' = 1 - offset
  /\ UNCHANGED <<now, zone, test, client, stop, tokenRequests, cfg, pc, run, headers, results>>
  /\ sent' = <<>>

\* /search <from> <to>
handleSearchCommand(chatID, arguments) ==
  /\ pc = "loop"
  /\ IF Len(Fields(arguments)) < 2
     THEN UNCHANGED <<pc, run>>
     ELSE performTrainSearch(chatID, Fields(arguments)[1], Fields(arguments)[2], TimeNow,
                             "handleSearchCommand")
  /\ offset' = 1 - offset
  /\ UNCHANGED <<userStates, now, zone, test, client, stop, tokenRequests, cfg, headers, results>>
  /\ sent' = <<>>

\* /search_date <from> <to> <date>
handleSearchDateCommand(chatID, arguments) ==
  /\ pc = "loop"
  /\ LET args == Fields(arguments)
     IN IF Len(args) < 3
        THEN UNCHANGED <<pc, run>>
        ELSE IF ~Parse(args[3]).ok
        THEN UNCHANGED <<pc, run>>
        ELSE performTrainSearch(chatID, args[1], args[2], Parse(args[3]).date,
                                "handleSearchDateCommand")
  /\ offset' = 1 - offset
  /\ UNCHANGED <<userStates, now, zone, test, client, stop, tokenRequests, cfg, headers, results>>
  /\ sent' = <<>>

\* /start, /help, /stations and the unknown commands: an answer is sent.
Commands == {"start", "help", "stations", "unknown"}

handleCommand(chatID, command) ==
  /\ pc = "loop"
  /\ command \in Commands
  /\ offset' = 1 - offset
  /\ UNCHANGED <<userStates, now, zone, test, client, stop, tokenRequests, cfg,
                 pc, run, headers, results>>
  /\ sent' = <<>>

\* A month-navigation button of the calendar (lines 638-648): the calendar
\* message is edited.
OnMonthCallback(chatID) ==
  /\ pc = "loop"
  /\ userStates' = getUserState(userStates, chatID)
  /\ offset' = 1 - offset
  /\ UNCHANGED <<now, zone, test, client, stop, tokenRequests, cfg, pc, run, headers, results>>
  /\ sent' = <<>>

\* A weekday header or an empty cell of the calendar (lines 122-125).
OnInertCallback(chatID) ==
  /\ pc = "loop"
  /\ offset' = 1 - offset
  /\ UNCHANGED <<userStates, now, zone, test, client, stop, tokenRequests, cfg,
                 pc, run, headers, results>>
  /\ sent' = <<>>

\* New with the credentials of the configuration (lines 43-45).
configureFromEnvironment(c) ==
  /\ headers' = SetAuthHeaders(c.RailwayXSRFToken, c.RailwayCookies)
  /\ tokenRequests' = 0
  /\ pc' = "loop"

\* New without them (lines 46-55): the credentials are requested from the
\* token endpoint; a failure is logged and the bot starts without them.
initializeDynamically(outcome, d) ==
  LET r == InitializeCredentials(headers, outcome, d)
  IN /\ headers' = r.headers
     /\ tokenRequests' = 1
     /\ pc' = IF r.panic THEN "panic" ELSE "loop"

\* Variant of hasEnvironmentCredentials that is content with one of the two.
hasEitherCredential(c) == c.RailwayXSRFToken # <<>> \/ c.RailwayCookies # <<>>

\* Line 43.
hasEnvironmentCredentials(c) == c.RailwayXSRFToken # <<>> /\ c.RailwayCookies # <<>>

\* New with a configuration of Configs: the train service is created with
\* the default language and the configuration is kept in the bot.
New(P, Configs) ==
  /\ pc = "new"
  /\ \E c \in Configs :
       /\ cfg' = c
       /\ IF hasEnvironmentCredentials(c)
          THEN configureFromEnvironment(c)
          ELSE \E outcome \in P.tokens, d \in P.durations : initializeDynamically(outcome, d)
  /\ client' = NewClient(LanguageUzbek)
  /\ UNCHANGED <<userStates, now, zone, test, stop, run, offset, results, sent>>

\* Passage of wall-clock time between two updates.
Tick ==
  /\ pc = "loop"
  /\ now + TickHours <= StartNow + MaxTicks * TickHours
  /\ now' = now + TickHours
  /\ UNCHANGED <<userStates, zone, test, client, stop, tokenRequests, cfg,
                 pc, run, offset, headers, results, sent>>

(***************************************************************************)
(* Specification                                                           *)
(***************************************************************************)
Init ==
  /\ userStates = <<>>
  /\ now = StartNow
  /\ zone \in Zones
  /\ pc = "loop"
  /\ run = NoRun
  /\ offset = 0
  /\ headers = EnvHeaders
  /\ results = <<>>
  /\ sent = <<>>
  /\ test = NoTest
  /\ client = NewClient(LanguageUzbek)
  /\ stop = FALSE
  /\ tokenRequests = 0
  /\ cfg = EnvConfig

\* The conversations of several chats in several time zones, driven by
\* messages and button presses, against a provider that answers 200 or 500.
Next ==
  \/ \E chatID \in Chats : OnSearchTrainsButton(chatID)
  \/ \E chatID \in Chats : OnSearchByDateButton(chatID)
  \/ \E chatID \in Chats : OnMainMenuText(chatID)
  \/ \E chatID \in Chats : OnMainMenuCallback(chatID)
  \/ \E chatID \in Chats, text \in Texts : OnInfoButton(chatID, text)
  \/ \E chatID \in Chats, text \in Texts : OnStepText(chatID, text)
  \/ \E chatID \in Chats, text \in Texts : OnIdleText(chatID, text)
  \/ \E chatID \in Chats, day \in PickDays : OnDateCallback(chatID, day)
  \/ searchTrainsWithRetry(PlainProvider)
  \/ backoffWait
  \/ finishSearch
  \/ Tick

Spec == Init /\ [][Next]_vars

\* The searches of one chat in one time zone, from the construction of the
\* bot on, against the provider in full.
SearchChat == CHOOSE c \in Chats : \A d \in Chats : c <= d

SearchInit ==
  /\ userStates = <<>>
  /\ now = StartNow
  /\ zone = 0
  /\ pc = "new"
  /\ run = NoRun
  /\ offset = 0
  /\ headers = NoHeaders
  /\ results = <<>>
  /\ sent = <<>>
  /\ test = NoTest
  /\ client = NoClient
  /\ stop = FALSE
  /\ tokenRequests = 0
  /\ cfg = NoConfig

SearchNext ==
  \/ New(StartupProvider, {EnvConfig} \cup PartialConfigs)
  \/ OnSearchTrainsButton(SearchChat)
  \/ \E text \in Texts : OnStepText(SearchChat, text)
  \/ \E text \in Texts : OnIdleText(SearchChat, text)
  \/ \E arguments \in FreeTexts : handleSearchCommand(SearchChat, arguments)
  \/ \E arguments \in ShortcutTexts : handleSearchDateCommand(SearchChat, arguments)
  \/ searchTrainsWithRetry(FullProvider)
  \/ findAvailableTrainsWithRetry(FullProvider)
  \/ backoffWait
  \/ finishSearch

SearchSpec == SearchInit /\ [][SearchNext]_vars

\* Every kind of inbound update for one chat in one time zone, with every
\* text of the model, against a provider that answers 200 or 500.
EventInit ==
  /\ userStates = <<>>
  /\ now = StartNow
  /\ zone = 0
  /\ pc = "loop"
  /\ run = NoRun
  /\ offset = 0
  /\ headers = EnvHeaders
  /\ results = <<>>
  /\ sent = <<>>
  /\ test = NoTest
  /\ client = NewClient(LanguageUzbek)
  /\ stop = FALSE
  /\ tokenRequests = 0
  /\ cfg = EnvConfig

EventNext ==
  \/ OnSearchTrainsButton(SearchChat)
  \/ OnSearchByDateButton(SearchChat)
  \/ OnMainMenuText(SearchChat)
  \/ OnMainMenuCallback(SearchChat)
  \/ \E text \in AllTexts : OnInfoButton(SearchChat, text)
  \/ \E text \in AllTexts : OnLanguageButton(SearchChat, text)
  \/ \E text \in AllTexts : OnStepText(SearchChat, text)
  \/ \E text \in AllTexts : OnIdleText(SearchChat, text)
  \/ \E day \in PickDays : OnDateCallback(SearchChat, day)
  \/ OnMonthCallback(SearchChat)
  \/ OnInertCallback(SearchChat)
  \/ \E command \in Commands : handleCommand(SearchChat, command)
  \/ \E arguments \in AllTexts \ Labels : handleSearchCommand(SearchChat, arguments)
  \/ \E arguments \in AllTexts \ Labels : handleSearchDateCommand(SearchChat, arguments)
  \/ searchTrainsWithRetry(PlainProvider)
  \/ findAvailableTrainsWithRetry(PlainProvider)
  \/ backoffWait
  \/ finishSearch
  \/ Tick

EventSpec == EventInit /\ [][EventNext]_vars

\* The results blocks of the model: every text of x's and line breaks up to
\* MaxTextLen characters.
ResultTexts == UNION {[1..n -> {"x", NewLine}] : n \in 0..MaxTextLen}

\* A handler whose search has just returned trains.
FoundRun(caller, wrapper) ==
  [NoRun EXCEPT !.chat = SearchChat, !.caller = caller, !.wrapper = wrapper,
                !.attempt = 1, !.calls = 1, !.ret = [err |-> NoErr, trains |-> 1]]

\* The credentials of the client from the construction of the bot on, over
\* the searches of one chat.
CredInit ==
  /\ userStates = <<>>
  /\ now = StartNow
  /\ zone = 0
  /\ pc = "new"
  /\ run = NoRun
  /\ offset = 0
  /\ headers = NoHeaders
  /\ results = <<>>
  /\ sent = <<>>
  /\ test = NoTest
  /\ client = NoClient
  /\ stop = FALSE
  /\ tokenRequests = 0
  /\ cfg = NoConfig

CredNext ==
  \/ New(CookieProvider, {EnvConfig, NoConfig} \cup OtherConfigs)
  \/ \E arguments \in FreeTexts : handleSearchCommand(SearchChat, arguments)
  \/ findAvailableTrainsWithRetry(CookieProvider)
  \/ backoffWait
  \/ finishSearch

CredSpec == CredInit /\ [][CredNext]_vars

\* The date-time strings of the model: the first n bytes of a stamp of the
\* provider, continued with padding.
DepartureStamp ==
  <<"0", "2", ".", "0", "9", ".", "2", "0", "2", "5", " ", "0", "6", ":", "0", "3">>

ArrivalStamp ==
  <<"0", "2", ".", "0", "9", ".", "2", "0", "2", "5", " ", "0", "8", ":", "2", "1">>

Cut(stamp, n) == [i \in 1..n |-> IF i <= Len(stamp) THEN stamp[i] ELSE "x"]

SeqsUpTo(S, n) == UNION {[1..k -> S] : k \in 0..n}

Tariffs == [FreeSeats : 0..MaxFree, Tariff : 0..MaxPrice]

Cars == [FreeSeats : 0..MaxFree, Tariffs : SeqsUpTo(Tariffs, MaxTariffs)]

\* The trains of the model: every pair of date-time strings with the sample
\* car, and every list of cars with the sample strings.
SampleCars == << [FreeSeats |-> 1, Tariffs |-> << [FreeSeats |-> 1, Tariff |-> 1] >>] >>

Trains ==
  {[DepartureDate |-> Cut(DepartureStamp, n), ArrivalDate |-> Cut(ArrivalStamp, k),
    Cars |-> SampleCars] : n \in 0..MaxDateLen, k \in 0..MaxDateLen}
  \cup {[DepartureDate |-> DepartureStamp, ArrivalDate |-> ArrivalStamp, Cars |-> cars] :
         cars \in SeqsUpTo(Cars, MaxCars)}

\* The self-test of the response helpers, for every train of the model.
TrainInit ==
  /\ userStates = <<>>
  /\ now = StartNow
  /\ zone = 0
  /\ pc = "loop"
  /\ run = NoRun
  /\ offset = 0
  /\ headers = NoHeaders
  /\ results = <<>>
  /\ sent = <<>>
  /\ test \in {[NoTest EXCEPT !.name = "TestAPIResponse", !.input = t] : t \in Trains}
  /\ client = NewClient(LanguageUzbek)
  /\ stop = FALSE
  /\ tokenRequests = 0
  /\ cfg = EnvConfig

TrainNext == TestAPIResponse

TrainSpec == TrainInit /\ [][TrainNext]_vars

\* The tokens of the model: the names and aliases of the table as written,
\* in lower case, in upper case and between spaces; the codes of the table;
\* the empty token, blanks, an unknown code, an unknown name.
NamesOf(station) ==
  {station.Name, station.NameUz, station.NameEn}
    \cup {station.Aliases[k] : k \in 1..Len(station.Aliases)}

TableNames == UNION {NamesOf(GetAllStations[i]) : i \in 1..Len(GetAllStations)}

TableCodes == {GetAllStations[i].Code : i \in 1..Len(GetAllStations)}

UnknownCode == <<"9", "9", "9", "9", "9", "9", "9">>

StationTokens ==
  UNION {{n, ToLower(n), ToUpper(n), <<" ", " ">> \o n \o <<" ">>} : n \in TableNames}
    \cup TableCodes
    \cup {<<>>, <<" ">>, UnknownCode, <<" ">> \o UnknownCode,
          <<"N", "o", "w", "h", "e", "r", "e">>}

\* The self-test of the station codes and the lookup by code, for every
\* token of the model.
StationInit ==
  /\ userStates = <<>>
  /\ now = StartNow
  /\ zone = 0
  /\ pc = "loop"
  /\ run = NoRun
  /\ offset = 0
  /\ headers = NoHeaders
  /\ results = <<>>
  /\ sent = <<>>
  /\ test \in {[NoTest EXCEPT !.name = "TestStationCodes", !.input = token] :
                 token \in StationTokens}
              \cup {[NoTest EXCEPT !.name = "GetStationByCode", !.input = code] :
                      code \in TableCodes \cup {UnknownCode}}
  /\ client = NewClient(LanguageUzbek)
  /\ stop = FALSE
  /\ tokenRequests = 0
  /\ cfg = EnvConfig

StationNext ==
  \/ TestStationCodes
  \/ LookupByCode

StationSpec == StationInit /\ [][StationNext]_vars

\* The sending of a results block: the handlers of the idle shortcut and of
\* /search at the return of a search that found trains, for every results
\* block of the model.
SplitInit ==
  /\ userStates = (SearchChat :> ZeroState)
  /\ now = StartNow
  /\ zone = 0
  /\ pc = "done"
  /\ run \in {FoundRun("handleTextMessage", "searchTrainsWithRetry"),
              FoundRun("handleSearchCommand", "findAvailableTrainsWithRetry")}
  /\ offset = 1
  /\ headers = EnvHeaders
  /\ results \in ResultTexts
  /\ sent = <<>>
  /\ test = NoTest
  /\ client = NewClient(LanguageUzbek)
  /\ stop = FALSE
  /\ tokenRequests = 0
  /\ cfg = EnvConfig

SplitNext == finishSearch

SplitSpec == SplitInit /\ [][SplitNext]_vars

(***************************************************************************)
(* The language of the client                                              *)
(***************************************************************************)
\* The language arguments of the model: the three languages of the provider,
\* the unspecified one and one the provider does not know.
Languages == {"", LanguageUzbek, LanguageRussian, LanguageEnglish, "xx"}

\* A client is created and replaces the one in use; it has no credentials.
CreateClient(language) ==
  /\ pc = "loop"
  /\ client' = NewClient(language)
  /\ headers' = NoHeaders
  /\ UNCHANGED <<userStates, now, zone, pc, run, offset, results, sent, test,
                 stop, tokenRequests, cfg>>

\* Client.SetLanguage, called between two updates.
ChangeLanguage(language) ==
  /\ pc = "loop"
  /\ client' = SetLanguage(client, language)
  /\ UNCHANGED <<userStates, now, zone, pc, run, offset, headers, results, sent, test,
                 stop, tokenRequests, cfg>>

\* Client.SetAuthHeaders, called between two updates.
ProvideCredentials(c) ==
  /\ pc = "loop"
  /\ headers' = SetAuthHeaders(c.RailwayXSRFToken, c.RailwayCookies)
  /\ UNCHANGED <<userStates, now, zone, pc, run, offset, results, sent, test,
                 client, stop, tokenRequests, cfg>>

\* The client from the construction of the bot on: language changes by the
\* language buttons and by direct calls, credentials, and searches.
LangInit ==
  /\ userStates = <<>>
  /\ now = StartNow
  /\ zone = 0
  /\ pc = "new"
  /\ run = NoRun
  /\ offset = 0
  /\ headers = NoHeaders
  /\ results = <<>>
  /\ sent = <<>>
  /\ test = NoTest
  /\ client = NoClient
  /\ stop = FALSE
  /\ tokenRequests = 0
  /\ cfg = NoConfig

LangNext ==
  \/ New(CookieProvider, {EnvConfig, NoConfig})
  \/ \E language \in Languages : CreateClient(language)
  \/ \E language \in Languages : ChangeLanguage(language)
  \/ \E c \in {EnvConfig} \cup OtherConfigs : ProvideCredentials(c)
  \/ \E text \in LanguageLabels : OnLanguageButton(SearchChat, text)
  \/ handleSearchCommand(SearchChat, <<"a", " ", "b">>)
  \/ findAvailableTrainsWithRetry(CookieProvider)
  \/ backoffWait
  \/ finishSearch

LangSpec == LangInit /\ [][LangNext]_vars

(***************************************************************************)
(* Shutdown of the event loop                                              *)
(***************************************************************************)
\* The positions of a handler in flight.
Handling == {"attempt", "backoff", "done"}

\* An interrupt or termination signal is delivered to the stop channel of
\* Run (lines 73-74), or the context of Run is cancelled, at any moment.
Signal ==
  /\ pc \in {"loop"} \cup Handling
  /\ ~stop
  /\ stop' = TRUE
  /\ UNCHANGED <<userStates, now, zone, pc, run, offset, headers, results, sent, test,
                 client, tokenRequests, cfg>>

\* Variant of Shutdown that returns from Run wherever the handler is.
ShutdownAnytime ==
  /\ pc \in {"loop"} \cup Handling
  /\ stop
  /\ pc' = "stopped"
  /\ UNCHANGED <<userStates, now, zone, run, offset, headers, results, sent, test,
                 client, stop, tokenRequests, cfg>>

\* The select of Run takes the Done or the stop case (lines 78-82) and Run
\* returns.
Shutdown ==
  /\ pc = "loop"
  /\ stop
  /\ pc' = "stopped"
  /\ UNCHANGED <<userStates, now, zone, run, offset, headers, results, sent, test,
                 client, stop, tokenRequests, cfg>>

\* The guided and the shortcut searches of one chat, with a shutdown signal
\* at any moment.
RunInit ==
  /\ userStates = <<>>
  /\ now = StartNow
  /\ zone = 0
  /\ pc = "loop"
  /\ run = NoRun
  /\ offset = 0
  /\ headers = EnvHeaders
  /\ results = <<>>
  /\ sent = <<>>
  /\ test = NoTest
  /\ client = NewClient(LanguageUzbek)
  /\ stop = FALSE
  /\ tokenRequests = 0
  /\ cfg = EnvConfig

RunNext ==
  \/ Signal
  \/ Shutdown
  \/ OnSearchTrainsButton(SearchChat)
  \/ OnMainMenuText(SearchChat)
  \/ \E text \in FreeTexts : OnStepText(SearchChat, text)
  \/ \E text \in FreeTexts : OnIdleText(SearchChat, text)
  \/ \E arguments \in FreeTexts : handleSearchCommand(SearchChat, arguments)
  \/ searchTrainsWithRetry(PlainProvider)
  \/ findAvailableTrainsWithRetry(PlainProvider)
  \/ backoffWait
  \/ finishSearch

RunSpec == RunInit /\ [][RunNext]_vars

TypeOK ==
  /\ DOMAIN userStates \subseteq Chats
  /\ pc \in {"new", "panic", "loop", "attempt", "backoff", "done", "stopped"}
  /\ now \in StartNow..(StartNow + MaxTicks * TickHours)
  /\ zone \in Zones
  /\ offset \in {0, 1}

(***************************************************************************)
(* Properties                                                              *)
(***************************************************************************)
HasAuthMarker(e) == e.text \cap {"403", "CSRF"} # {}

PlainFailure(e) == e # NoErr /\ ~HasAuthMarker(e) /\ ~e.ctx

AllPlain(errs) == \A i \in 1..Len(errs) : PlainFailure(errs[i])

RetryExhausted(e) ==
  /\ e.chain # <<>>
  /\ Head(e.chain) \in {"failed to search trains after 3 attempts",
                        "failed to find available trains after 3 attempts"}

WrapsAttempt(e, cause) ==
  /\ RetryExhausted(e)
  /\ Tail(e.chain) = cause.chain
  /\ e.status = cause.status
  /\ e.text = cause.text
  /\ e.ctx = cause.ctx

Today == (now + zone) \div HoursPerDay

InStep(c, step) == c \in DOMAIN userStates /\ userStates[c].CurrentStep = step

\* C1 (as stated): in a call of the client whose first POST is answered 403
\* with a CSRF marker, exactly one token request and exactly one retried POST
\* are issued (two POSTs in all).
C1_Original ==
  run.call.csrf403 => run.call.refreshes = 1 /\ run.call.posts = 2

\* C1 (amended): in a call of the client whose first POST is answered 403
\* with a CSRF marker, exactly one token request is issued; the POST is
\* retried exactly once when that refresh succeeds and not at all when it
\* fails; nothing further is issued even when the retried POST is again
\* answered 403 with a CSRF marker, and the failure of the retry (or of the
\* refresh) is the error the caller gets.
C1_SingleRefreshAndRetry ==
  run.call.csrf403 =>
    /\ run.call.refreshes = 1
    /\ run.call.posts = (IF run.call.refreshed THEN 2 ELSE 1)
    /\ ~run.call.refreshed =>
         /\ run.call.err # NoErr
         /\ Head(run.call.err.chain) = "failed to refresh CSRF token"
    /\ run.call.refreshed /\ run.call.err = NoErr => run.call.status = 200
    /\ run.call.refreshed /\ run.call.status \notin {0, 200} =>
         /\ Head(run.call.err.chain) = "API request failed with status"
         /\ run.call.err.status = run.call.status
    /\ run.call.err # NoErr => run.lastErr = run.call.err

C1_Witness ==
  /\ run.call.csrf403
  /\ run.call.refreshed
  /\ run.call.posts = 2
  /\ run.call.status = 403
  /\ "CSRF" \in run.call.err.text

\* C2 (as stated): when every call of the service has failed with an error
\* that is neither authentication-related nor a cancellation, the retry loop
\* ends after exactly 3 calls, having waited 1s and then 2s, with an error
\* that wraps the error of the third call.
C2_Original ==
  (pc = "done" /\ run.calls > 0 /\ Len(run.errs) = run.calls /\ AllPlain(run.errs))
    => /\ run.calls = 3
       /\ run.waits = <<1, 2>>
       /\ WrapsAttempt(run.ret.err, run.errs[3])

\* C2 (amended): the same, provided the search's 30-second context has not
\* expired when the loop ends.
C2_ThreeAttempts ==
  (pc = "done" /\ run.calls > 0 /\ Len(run.errs) = run.calls /\ AllPlain(run.errs)
     /\ run.elapsed < Timeout)
    => /\ run.calls = 3
       /\ run.waits = <<1, 2>>
       /\ WrapsAttempt(run.ret.err, run.errs[3])

C2_Witness ==
  /\ pc = "done"
  /\ run.wrapper = "findAvailableTrainsWithRetry"
  /\ run.calls = 3
  /\ Len(run.errs) = 3
  /\ AllPlain(run.errs)
  /\ run.errs[1] # run.errs[3]
  /\ run.elapsed < Timeout

\* C3: a call that fails with an error carrying the 403 or the CSRF marker is
\* the last call of its search and is followed by no backoff wait; when it is
\* the first call, the search makes exactly one call.
C3_NoRetryOnAuthError ==
  /\ pc \in {"attempt", "backoff"} =>
       \A i \in 1..Len(run.errs) : ~HasAuthMarker(run.errs[i])
  /\ pc = "done" =>
       \A i \in 1..Len(run.errs) :
         HasAuthMarker(run.errs[i]) =>
           /\ i = Len(run.errs)
           /\ run.calls = i
           /\ Len(run.waits) = i - 1

C3_Witness ==
  /\ pc = "done"
  /\ run.calls = 1
  /\ Len(run.errs) = 1
  /\ Head(run.errs[1].chain) = "failed to refresh CSRF token"
  /\ run.errs[1].text = {"CSRF"}
  /\ run.waits = <<>>

\* C4: when the search's context has expired, the error returned by the retry
\* loop is the context's error itself, not wrapped in the retry-exhausted
\* error.
C4_Claim ==
  (pc = "done" /\ run.elapsed >= Timeout) => run.ret.err = DeadlineExceeded

\* C5: a "back to main menu" trigger (button text or inline callback) leaves
\* the chat in idle with origin, destination and date discarded.
C5_Claim ==
  [][\A c \in Chats :
       (OnMainMenuText(c) \/ OnMainMenuCallback(c))
         => (c \in DOMAIN userStates' => userStates'[c] = ZeroState)]_vars

\* C6: a "start search" trigger received in any step replaces the chat's
\* state by step awaiting_origin, date = today, origin and destination empty.
C6_StartSearch ==
  [][\A c \in Chats :
       OnSearchTrainsButton(c) =>
         /\ userStates'[c].CurrentStep = "select_from_station"
         /\ userStates'[c].FromStation = <<>>
         /\ userStates'[c].ToStation = <<>>
         /\ userStates'[c].SearchDate.set
         /\ Format(userStates'[c].SearchDate) = Today]_vars

C6_Witness ==
  \E c \in DOMAIN userStates :
    /\ userStates[c].CurrentStep = "select_from_station"
    /\ userStates[c].FromStation = <<>>
    /\ userStates[c].ToStation = <<>>
    /\ userStates[c].SearchDate = TimeNow

\* C7 (as stated): in awaiting_origin every non-empty free text is stored as
\* the origin exactly as sent, the step becomes awaiting_destination, the date
\* is unchanged and no search is issued.
C7_Original ==
  [][\A c \in Chats, t \in FreeTexts :
       (InStep(c, "select_from_station") /\ OnStepText(c, t)) =>
         /\ userStates'[c].FromStation = t
         /\ userStates'[c].CurrentStep = "select_to_station"
         /\ userStates'[c].SearchDate = userStates[c].SearchDate
         /\ pc' = "loop"]_vars

\* C7 (amended): in awaiting_origin a free text is stored as the origin after
\* its leading and trailing whitespace is removed, the step becomes
\* awaiting_destination, the date is unchanged and no search is issued; a text
\* of whitespace only is rejected and changes nothing.
C7_OriginStoredTrimmed ==
  [][\A c \in Chats, t \in FreeTexts :
       (InStep(c, "select_from_station") /\ OnStepText(c, t)) =>
         /\ pc' = "loop"
         /\ IF \A i \in 1..Len(t) : t[i] = " "
            THEN userStates'[c] = userStates[c]
            ELSE /\ userStates'[c].FromStation = TrimSpace(t)
                 /\ userStates'[c].CurrentStep = "select_to_station"
                 /\ userStates'[c].ToStation = userStates[c].ToStation
                 /\ userStates'[c].SearchDate = userStates[c].SearchDate]_vars

C7_Witness ==
  \E c \in DOMAIN userStates :
    /\ userStates[c].CurrentStep = "select_to_station"
    /\ userStates[c].FromStation = <<"a", " ", "b">>
    /\ userStates[c].ToStation = <<>>

\* C8: in awaiting_destination a text equal to the stored origin (exact,
\* case-sensitive) is rejected: no search, step, origin and date kept; a text
\* that differs from the origin only in letter case is not rejected.
C8_SameStationRejected ==
  [][\A c \in Chats, t \in FreeTexts :
       (InStep(c, "select_to_station") /\ OnStepText(c, t)) =>
         /\ t = userStates[c].FromStation =>
              /\ pc' = "loop"
              /\ userStates'[c].CurrentStep = "select_to_station"
              /\ userStates'[c].FromStation = userStates[c].FromStation
              /\ userStates'[c].SearchDate = userStates[c].SearchDate
         /\ (t # userStates[c].FromStation
               /\ ToLower(t) = ToLower(userStates[c].FromStation)) =>
              /\ pc' = "attempt"
              /\ run'.params.To = t]_vars

C8_Witness ==
  \E c \in DOMAIN userStates :
    /\ userStates[c].CurrentStep = "select_to_station"
    /\ userStates[c].FromStation # <<>>
    /\ userStates[c].ToStation = userStates[c].FromStation

GuidedSearchEnds ==
  (pc = "done" /\ run.caller = "handleStationSelection" /\ pc' = "loop")
    => userStates'[run.chat] = ZeroState

OneSearchPerHandler ==
  (pc # "loop" /\ pc' # "loop") => run'.params = run.params /\ run'.chat = run.chat

\* C9 (as stated): in awaiting_destination a non-empty text different from
\* the stored origin triggers exactly one search with (stored origin, that
\* text, stored date), and when the handler finishes the chat is idle with
\* all selections cleared, whatever the outcome of the search.
C9_Original ==
  [][/\ \A c \in Chats, t \in FreeTexts :
          (InStep(c, "select_to_station") /\ OnStepText(c, t)
             /\ t # <<>> /\ t # userStates[c].FromStation) =>
            /\ pc' = "attempt"
            /\ run'.chat = c
            /\ run'.params = [From |-> userStates[c].FromStation, To |-> t,
                              Date |-> userStates[c].SearchDate]
     /\ OneSearchPerHandler
     /\ GuidedSearchEnds]_vars

\* C9 (amended): in awaiting_destination a text whose whitespace-trimmed form
\* is non-empty and different from the stored origin triggers exactly one
\* search with (stored origin, trimmed text, stored date), and when the
\* handler finishes the chat is idle with all selections cleared, whether the
\* search succeeded, found no train, failed or timed out.
C9_SearchThenIdle ==
  [][/\ \A c \in Chats, t \in FreeTexts :
          (InStep(c, "select_to_station") /\ OnStepText(c, t)
             /\ TrimSpace(t) # <<>> /\ TrimSpace(t) # userStates[c].FromStation) =>
            /\ pc' = "attempt"
            /\ run'.chat = c
            /\ run'.calls = 0
            /\ run'.params = [From |-> userStates[c].FromStation, To |-> TrimSpace(t),
                              Date |-> userStates[c].SearchDate]
     /\ OneSearchPerHandler
     /\ GuidedSearchEnds]_vars

C9_Witness ==
  /\ pc = "done"
  /\ run.caller = "handleStationSelection"
  /\ run.ret.err.ctx
  /\ userStates[run.chat].CurrentStep = "select_to_station"

\* C10: a "start dated search" trigger puts the chat in awaiting_date; a
\* following date-picker selection of a date that is today or later stores
\* that date and moves the chat to awaiting_origin, and a selection of a date
\* before today changes neither the step nor the stored date.
C10_Claim ==
  [][\A c \in Chats :
       /\ OnSearchByDateButton(c) => userStates'[c].CurrentStep = "select_date"
       /\ \A d \in PickDays :
            (InStep(c, "select_date") /\ OnDateCallback(c, d)) =>
              IF d >= Today
              THEN /\ userStates'[c].CurrentStep = "select_from_station"
                   /\ userStates'[c].SearchDate.set
                   /\ Format(userStates'[c].SearchDate) = d
              ELSE /\ userStates'[c].CurrentStep = userStates[c].CurrentStep
                   /\ userStates'[c].SearchDate = userStates[c].SearchDate]_vars

HasBlank(t) == \E i \in 1..Len(t) : t[i] = " "

IsDateToken(token) == \E d \in 1..Len(Digits) : token = <<Digits[d]>>

DayOfToken(token) == (CHOOSE d \in 1..Len(Digits) : token = <<Digits[d]>>) - 1

ShortcutEndsIdle ==
  (pc = "done" /\ run.caller = "handleTextMessage" /\ pc' = "loop")
    => userStates'[run.chat].CurrentStep = ""

NoShortcutInStep ==
  \A t \in AllTexts : OnStepText(SearchChat, t) => run'.caller # "handleTextMessage"

\* C11 (as stated): in idle a text of exactly two tokens starts one search
\* for today, a text of exactly three tokens whose third is a valid date
\* starts one search for that date, every other text starts none; the chat is
\* idle afterwards; outside idle no text is taken as a shortcut.
C11_Original ==
  [][/\ \A t \in AllTexts :
          OnIdleText(SearchChat, t) =>
            LET parts == Fields(t)
            IN /\ userStates'[SearchChat].CurrentStep = ""
               /\ IF Len(parts) = 2
                  THEN /\ pc' = "attempt"
                       /\ run'.calls = 0
                       /\ run'.params = [From |-> parts[1], To |-> parts[2], Date |-> TimeNow]
                  ELSE IF Len(parts) = 3 /\ IsDateToken(parts[3])
                  THEN /\ pc' = "attempt"
                       /\ run'.calls = 0
                       /\ run'.params = [From |-> parts[1], To |-> parts[2],
                                         Date |-> TimeDate(DayOfToken(parts[3]))]
                  ELSE pc' = "loop" /\ run' = run
     /\ NoShortcutInStep
     /\ ShortcutEndsIdle]_vars

\* C11 (amended): the same for the texts that contain a space character; a
\* text without a space character (its tokens separated by line breaks only)
\* starts no search and is answered as unrecognized input.
C11_IdleShortcut ==
  [][/\ \A t \in AllTexts :
          OnIdleText(SearchChat, t) =>
            LET parts == Fields(t)
            IN /\ userStates'[SearchChat].CurrentStep = ""
               /\ IF HasBlank(t) /\ Len(parts) = 2
                  THEN /\ pc' = "attempt"
                       /\ run'.calls = 0
                       /\ run'.params = [From |-> parts[1], To |-> parts[2], Date |-> TimeNow]
                  ELSE IF HasBlank(t) /\ Len(parts) = 3 /\ IsDateToken(parts[3])
                  THEN /\ pc' = "attempt"
                       /\ run'.calls = 0
                       /\ run'.params = [From |-> parts[1], To |-> parts[2],
                                         Date |-> TimeDate(DayOfToken(parts[3]))]
                  ELSE pc' = "loop" /\ run' = run
     /\ NoShortcutInStep
     /\ ShortcutEndsIdle]_vars

C11_Witness ==
  /\ pc = "done"
  /\ run.caller = "handleTextMessage"
  /\ run.params.Date = TimeDate(1)
  /\ run.ret.trains = 1

InProgress(c) == c \in DOMAIN userStates /\ userStates[c].CurrentStep # ""

FrameEvent(c) ==
  \/ \E t \in AllTexts : OnInfoButton(c, t)
  \/ OnMonthCallback(c)
  \/ OnInertCallback(c)
  \/ \E command \in Commands : handleCommand(c, command)
  \/ \E arguments \in AllTexts : handleSearchCommand(c, arguments)
  \/ \E arguments \in AllTexts : handleSearchDateCommand(c, arguments)

EventOf(a) ==
  \/ OnSearchTrainsButton(a)
  \/ OnSearchByDateButton(a)
  \/ OnMainMenuText(a)
  \/ OnMainMenuCallback(a)
  \/ \E t \in Texts : OnInfoButton(a, t) \/ OnStepText(a, t) \/ OnIdleText(a, t)
  \/ \E d \in PickDays : OnDateCallback(a, d)
  \/ (pc # "loop" /\ run.chat = a)

SameEntry(b) ==
  /\ b \in DOMAIN userStates' <=> b \in DOMAIN userStates
  /\ b \in DOMAIN userStates => userStates'[b] = userStates[b]

\* C13: handling an update of chat a changes the entry of no other chat; an
\* entry appears only in the handling of an update of its own chat, idle with
\* empty selections unless that same handler is a start trigger or a date
\* selection, which leave origin and destination empty.
C13_ChatPartition ==
  [][\A a \in Chats :
       /\ EventOf(a) => \A b \in Chats \ {a} : SameEntry(b)
       /\ (a \notin DOMAIN userStates /\ a \in DOMAIN userStates') =>
            /\ EventOf(a)
            /\ userStates'[a].FromStation = <<>>
            /\ userStates'[a].ToStation = <<>>
            /\ \/ userStates'[a] = ZeroState
               \/ OnSearchTrainsButton(a)
               \/ OnSearchByDateButton(a)
               \/ \E d \in PickDays : OnDateCallback(a, d)]_vars

C13_Witness ==
  /\ pc = "done"
  /\ run.chat = 1
  /\ run.caller = "handleStationSelection"
  /\ 2 \in DOMAIN userStates
  /\ userStates[2].CurrentStep = "select_to_station"
  /\ userStates[2].FromStation = userStates[1].FromStation

\* C14: while a handler is in flight (its provider calls and backoff waits
\* included) no update is taken from the channel and no chat other than the
\* handler's changes; the next update is taken only when the handler is done.
C14_OneAtATime ==
  [][/\ pc # "loop" => /\ offset' = offset
                       /\ run.chat \in Chats
                       /\ \A b \in Chats \ {run.chat} : SameEntry(b)
                       /\ pc' = "loop" => pc = "done"
     /\ offset' # offset => pc = "loop"
     /\ headers' # headers => pc = "attempt"]_vars

C14_Witness ==
  /\ pc = "backoff"
  /\ run.chat = 1
  /\ Len(run.waits) = 1
  /\ 2 \in DOMAIN userStates
  /\ userStates[2].CurrentStep = "select_from_station"

\* The step in which a handler sends the results block of its search.
SendsResults(wrapper) ==
  /\ pc = "done"
  /\ run.wrapper = wrapper
  /\ run.ret.err = NoErr
  /\ run.ret.trains > 0
  /\ finishSearch

AtMostCap(parts) == \A i \in 1..Len(parts) : Len(parts[i]) <= maxLength

\* C15: for a text longer than the cap, every part returned by the splitter
\* (the messages sent by /search) is at most the cap long.
C15_Claim ==
  [][(SendsResults("findAvailableTrainsWithRetry") /\ Len(results) > maxLength)
       => AtMostCap(sent')]_vars

\* C16: joining the parts returned by the splitter with a line break gives
\* the original text, and a text not longer than the cap is returned as one
\* unchanged part.
C16_Claim ==
  [][SendsResults("findAvailableTrainsWithRetry") =>
       /\ Join(sent') = results
       /\ Len(results) <= maxLength => sent' = <<results>>]_vars

\* C17: every message that carries search results is at most the cap long, on
\* the path of the guided flow and the idle shortcut as well as on the path
\* of the commands.
C17_Claim ==
  [][/\ SendsResults("searchTrainsWithRetry") => AtMostCap(sent')
     /\ SendsResults("findAvailableTrainsWithRetry") => AtMostCap(sent')]_vars

\* The last call of the client received an answer to a POST and did not end
\* in a failed token refresh.
Answered(c) == c.status # 0 /\ ~(c.csrf403 /\ ~c.refreshed)

\* The error is the status error of the client, with the status and the body
\* of the given response.
IsStatusFailure(err, status, body) ==
  /\ err.chain = <<"API request failed with status">>
  /\ err.status = status
  /\ err.body = body

\* C18: the client's search fails with the error that carries the status and
\* the body of the final response exactly when that status is outside
\* 200-299; for a status in 200-299 the body is decoded.
C18_Claim ==
  Answered(run.call) =>
    (IsStatusFailure(run.call.err, run.call.status, run.call.body)
       <=> run.call.status \notin 200..299)

\* C19: a 2xx answer is a successful search only if its body has a data field
\* and no error field; a body with an error field, and a body with neither
\* field, make the client's search fail.
C19_Claim ==
  (Answered(run.call) /\ run.call.status \in 200..299) =>
    /\ run.call.err = NoErr => run.call.shape = "data"
    /\ run.call.shape \in {"error", "neither"} => run.call.err # NoErr

\* The token endpoint is unreachable, answers with a status outside 200-299,
\* or sends no Set-Cookie entry with the XSRF-TOKEN pattern.
NoTokenObtainable(outcome, d) ==
  \/ outcome.kind = "transport"
  \/ d >= Timeout
  \/ outcome.status \notin 200..299
  \/ outcome.token = <<>>

\* The headers with the given token and a cookie string that contains only
\* XSRF-TOKEN=<token>.
OnlyToken(token) ==
  [token |-> token,
   cookie |-> [set |-> TRUE, entries |-> << <<XsrfName, token>> >>]]

\* C20: the initialization of the credentials fails with a credential error
\* exactly when the token endpoint is unreachable, answers with a non-2xx
\* status or sends no token; in every other case it succeeds and leaves the
\* extracted token as the token header and as the only entry of the cookie
\* string.
C20_Claim ==
  [][\A outcome \in StartupProvider.tokens, d \in StartupProvider.durations :
       (pc = "new" /\ initializeDynamically(outcome, d)) =>
         LET r == InitializeCredentials(headers, outcome, d)
         IN /\ r.err # NoErr <=> NoTokenObtainable(outcome, d)
            /\ r.err # NoErr => Head(r.err.chain) = "failed to initialize CSRF token"
            /\ ~NoTokenObtainable(outcome, d) =>
                 /\ pc' = "loop"
                 /\ headers' = OnlyToken(outcome.token)]_vars

\* The cookie string that the refresh of the 403 path is to leave behind: the
\* value of the XSRF-TOKEN pair replaced by the new token, or the pair put in
\* front when there was none, every other pair kept.
PatchedCookie(cookie, newToken) ==
  IF cookie.set /\ \E i \in 1..Len(cookie.entries) : cookie.entries[i][1] = XsrfName
  THEN [i \in 1..Len(cookie.entries) |->
          IF cookie.entries[i][1] = XsrfName THEN <<XsrfName, newToken>>
          ELSE cookie.entries[i]]
  ELSE << <<XsrfName, newToken>> >> \o cookie.entries

\* The token header equals the value of the XSRF-TOKEN pair of the cookie.
TokenInCookie(h) ==
  /\ h.cookie.set
  /\ \E i \in 1..Len(h.cookie.entries) : h.cookie.entries[i][1] = XsrfName
  /\ \A i \in 1..Len(h.cookie.entries) :
       h.cookie.entries[i][1] = XsrfName => h.cookie.entries[i][2] = h.token

\* A call of the client in which the token has been refreshed.
RefreshedCall == pc = "attempt" /\ run'.call # run.call /\ run'.call.refreshed

\* C21: after a successful refresh in the 403 path the cookie string is the
\* previous one with its XSRF-TOKEN pair replaced by the new token, or with
\* the pair put in front, all other pairs kept; and the retried POST carries
\* a token header equal to the XSRF-TOKEN value of its cookie, as does every
\* request after a successful initialization.
C21_Claim ==
  [][/\ RefreshedCall =>
          /\ headers'.token = run'.call.token
          /\ headers'.cookie.set
          /\ headers'.cookie.entries = PatchedCookie(headers.cookie, run'.call.token)
          /\ TokenInCookie(headers')
     /\ \A outcome \in CookieProvider.tokens, d \in CookieProvider.durations :
          (/\ pc = "new"
           /\ initializeDynamically(outcome, d)
           /\ InitializeCredentials(headers, outcome, d).err = NoErr)
            => TokenInCookie(headers')]_vars

\* The self-test has printed its report of a train.
Reported == test.name = "TestAPIResponse" /\ test.done

\* The tariffs with free seats, as pairs of car number and tariff number.
FreeTariffs(t) ==
  {<<i, j>> \in (1..MaxCars + 1) \X (1..MaxTariffs + 1) :
     /\ i <= Len(t.Cars)
     /\ j <= Len(t.Cars[i].Tariffs)
     /\ t.Cars[i].Tariffs[j].FreeSeats > 0}

\* C22: a train has available seats if and only if at least one tariff of at
\* least one of its cars has a free-seat count greater than 0, whatever the
\* free-seat totals of the cars are.
C22_AvailableIffFreeTariff ==
  Reported => (test.output.HasAvailableSeats <=> FreeTariffs(test.input) # {})

C22_Witness ==
  /\ Reported
  /\ test.output.HasAvailableSeats
  /\ test.output.TotalFreeSeats = 0
  /\ Len(test.input.Cars) = 2

\* C23: for a train with non-negative tariff prices, GetMinPrice is the
\* minimum of the prices of the tariffs with free seats, and 0 when no tariff
\* has free seats.
C23_Claim ==
  Reported =>
    LET t == test.input
        prices == {t.Cars[p[1]].Tariffs[p[2]].Tariff : p \in FreeTariffs(t)}
    IN IF prices = {} THEN test.output.MinPrice = 0
       ELSE /\ test.output.MinPrice \in prices
            /\ \A q \in prices : test.output.MinPrice <= q

\* C24 (as stated): for a date-time string of at least 16 characters the time
\* extractors return characters [11,16) and the date extractor characters
\* [0,10); for every shorter string all three return the string unchanged.
C24_Original ==
  Reported =>
    LET dep == test.input.DepartureDate
        arr == test.input.ArrivalDate
    IN /\ Len(dep) >= 16 => /\ test.output.DepartureTime = SubSeq(dep, 12, 16)
                            /\ test.output.Date = SubSeq(dep, 1, 10)
       /\ Len(arr) >= 16 => test.output.ArrivalTime = SubSeq(arr, 12, 16)
       /\ Len(dep) < 16 => /\ test.output.DepartureTime = dep
                           /\ test.output.Date = dep
       /\ Len(arr) < 16 => test.output.ArrivalTime = arr

\* C24 (amended): the time extractors return bytes [11,16) of a string of at
\* least 16 bytes and every shorter string unchanged; the date extractor
\* returns bytes [0,10) of a string of at least 10 bytes and every shorter
\* string unchanged.
C24_Extractors ==
  Reported =>
    LET dep == test.input.DepartureDate
        arr == test.input.ArrivalDate
    IN /\ test.output.DepartureTime = (IF Len(dep) >= 16 THEN SubSeq(dep, 12, 16) ELSE dep)
       /\ test.output.ArrivalTime = (IF Len(arr) >= 16 THEN SubSeq(arr, 12, 16) ELSE arr)
       /\ test.output.Date = (IF Len(dep) >= 10 THEN SubSeq(dep, 1, 10) ELSE dep)

C24_Witness ==
  /\ Reported
  /\ Len(test.input.DepartureDate) = 12
  /\ test.output.Date = SubSeq(DepartureStamp, 1, 10)
  /\ test.output.DepartureTime = test.input.DepartureDate
  /\ Len(test.input.ArrivalDate) = 16
  /\ test.output.ArrivalTime = <<"0", "8", ":", "2", "1">>

\* The self-test has resolved its token.
Resolved == test.name = "TestStationCodes" /\ test.done

\* The lowercased names and aliases of a record.
LowerNamesOf(station) == {ToLower(n) : n \in NamesOf(station)}

\* The codes of the records that have the token, lowercased and trimmed,
\* among their names and aliases.
CodesNamed(token) ==
  {GetAllStations[i].Code : i \in {k \in 1..Len(GetAllStations) :
     TrimSpace(ToLower(token)) \in LowerNamesOf(GetAllStations[k])}}

StartsWithDigit(token) == token # <<>> /\ token[1] \in {Digits[i] : i \in 1..Len(Digits)}

\* C25: station resolution always returns: an empty token and a token that
\* starts with a digit come back unchanged; any other token comes back as the
\* code of the station that has it, lowercased and trimmed, as a name or
\* alias, and unchanged when there is no such station.
C25_ResolutionTotal ==
  Resolved =>
    IF test.input = <<>> \/ StartsWithDigit(test.input) THEN test.output = test.input
    ELSE IF CodesNamed(test.input) # {} THEN test.output \in CodesNamed(test.input)
    ELSE test.output = test.input

C25_Witness ==
  /\ Resolved
  /\ test.input = <<" ", " ", "N", "a", "m", "a", "n", "g", "a", "n", " ">>
  /\ test.output = <<"2", "9", "0", "0", "9", "4", "0">>

\* A record has been looked up by its code or by one of its names.
LookedUp ==
  \/ test.name = "GetStationByCode" /\ test.done /\ test.output.found
  \/ Resolved /\ test.output \in TableCodes /\ test.input \notin TableCodes

\* C26: in the station table every code occurs in exactly one record and no
\* lowercased name or alias belongs to two records, so that a lookup by code
\* or by name finds the same record whatever the order of the table.
C26_TableUnambiguous ==
  /\ \A i \in 1..Len(GetAllStations) : \A j \in 1..Len(GetAllStations) :
       i # j => /\ GetAllStations[i].Code # GetAllStations[j].Code
                /\ LowerNamesOf(GetAllStations[i]) \cap LowerNamesOf(GetAllStations[j]) = {}
  /\ (test.name = "GetStationByCode" /\ test.done) =>
       /\ test.output.found <=> test.input \in TableCodes
       /\ test.output.found =>
            \A i \in 1..Len(GetAllStations) :
              GetAllStations[i].Code = test.input => GetAllStations[i] = test.output.station
  /\ (Resolved /\ CodesNamed(test.input) # {} /\ ~StartsWithDigit(test.input)) =>
       CodesNamed(test.input) = {test.output}

C26_Witness ==
  /\ LookedUp
  /\ test.name = "GetStationByCode"
  /\ test.output.station.Name = <<"X", "i", "v", "a">>

\* The handler of a search whose retry loop has failed returns.
FailedSearchReturns == pc = "done" /\ run.ret.err # NoErr /\ pc' = "loop"

\* C27: every search of the guided flow, of the idle shortcut, of /search and
\* of /search_date that fails, for whatever reason, is followed by exactly
\* one error message before its handler returns.
C27_FailureTold ==
  [][FailedSearchReturns => (Len(sent') = 1 /\ sent'[1] \in ErrorMessages)]_vars

C27_Witness ==
  /\ pc = "loop"
  /\ sent = <<SearchErrorMessage>>

\* C28: no answer of the token endpoint crashes the process: for a token of
\* any length the initialization of the credentials returns, with the
\* credentials set or with an error, and the bot starts.
C28_Claim == [][pc = "new" => pc' = "loop"]_vars

\* The provider rejected the authentication of the call: a POST of the call
\* was answered with the status 403.
AuthRejection(c) == c.csrf403 \/ c.status = 403

\* The step is one iteration of a retry loop whose attempt failed.
FailedAttempt == pc = "attempt" /\ run'.calls = run.calls + 1 /\ run'.call.err # NoErr

\* C29: a failed attempt 1 or 2 whose failure is neither an authentication
\* rejection by the provider nor a cancellation enters the wait, whatever the
\* response body or the error text contains, and the wait ends after
\* attemptNumber seconds in the next attempt unless the context expires first.
C29_Claim ==
  [][/\ (FailedAttempt /\ run.attempt \in {1, 2} /\ ~AuthRejection(run'.call)
           /\ run'.call.elapsed < Timeout) => pc' = "backoff"
     /\ pc = "backoff" =>
          \/ pc' = "attempt" /\ run'.attempt = run.attempt + 1
                             /\ run'.elapsed = run.elapsed + run.attempt
          \/ pc' = "done" /\ run'.elapsed >= Timeout]_vars

\* The token endpoint gives no token: it is unreachable or too slow, answers
\* with a status other than 200, or sends no XSRF-TOKEN cookie.
TokenRequestFails(outcome, d) ==
  \/ outcome.kind = "transport"
  \/ d >= Timeout
  \/ outcome.status # 200
  \/ outcome.token = <<>>

\* A call of the client whose token refresh has failed.
FailedRefreshCall ==
  /\ pc = "attempt"
  /\ run'.calls = run.calls + 1
  /\ run'.call.csrf403
  /\ ~run'.call.refreshed

\* C30: when a token refresh fails, in the 403 path of a search or during the
\* initialization of the credentials, the token header and the cookie string
\* stay as they were, no retried POST is sent and the failure is returned;
\* the two headers change only after a refresh that has succeeded (or, at
\* construction, from the configuration).
C30_RefreshFailureKeepsCredentials ==
  [][/\ FailedRefreshCall =>
          /\ headers' = headers
          /\ run'.call.posts = 1
          /\ run'.call.refreshes = 1
          /\ run'.call.err # NoErr
          /\ Head(run'.call.err.chain) = "failed to refresh CSRF token"
          /\ run'.lastErr = run'.call.err
     /\ \A outcome \in StartupProvider.tokens, d \in StartupProvider.durations :
          (/\ pc = "new"
           /\ initializeDynamically(outcome, d)
           /\ TokenRequestFails(outcome, d))
          => /\ headers' = headers
             /\ pc' = "loop"
             /\ InitializeCredentials(headers, outcome, d).err # NoErr
     /\ (pc = "attempt" /\ headers' # headers) =>
          /\ run'.call.refreshed
          /\ run'.call.token # <<>>
          /\ headers'.token = run'.call.token
     /\ (pc = "new" /\ headers' # headers) =>
          \/ headers' = EnvHeaders
          \/ \E outcome \in StartupProvider.tokens :
               /\ ~TokenRequestFails(outcome, 0)
               /\ headers'.token = outcome.token
     /\ pc \notin {"attempt", "new"} => headers' = headers]_vars

\* A search has ended in a failed refresh with the configured credentials
\* still in place.
C30_Witness ==
  /\ pc = "done"
  /\ run.call.csrf403
  /\ ~run.call.refreshed
  /\ run.call.refreshes = 1
  /\ headers = EnvHeaders

\* The step is the construction of the bot.
Constructs == pc = "new" /\ pc' # "new"

\* C31: at startup a configuration with both the token and the cookie string
\* is installed verbatim without a request to the token endpoint; otherwise
\* the credentials are requested once, and when that request fails the bot is
\* created all the same, without credentials, and enters its event loop.
C31_StartupCredentials ==
  [][Constructs =>
       /\ (cfg'.RailwayXSRFToken # <<>> /\ cfg'.RailwayCookies # <<>>) =>
            /\ tokenRequests' = 0
            /\ headers'.token = cfg'.RailwayXSRFToken
            /\ headers'.cookie = [set |-> TRUE, entries |-> cfg'.RailwayCookies]
            /\ pc' = "loop"
       /\ (cfg'.RailwayXSRFToken = <<>> \/ cfg'.RailwayCookies = <<>>) =>
            /\ tokenRequests' = 1
            /\ \A outcome \in StartupProvider.tokens, d \in StartupProvider.durations :
                 (initializeDynamically(outcome, d) /\ TokenRequestFails(outcome, d))
                   => (pc' = "loop" /\ headers' = NoHeaders)
            /\ headers'.token = <<>> => pc' = "loop"]_vars

\* The bot has started without credentials after a failed request, from a
\* configuration that has the token but no cookie string.
C31_Witness ==
  /\ pc = "loop"
  /\ tokenRequests = 1
  /\ headers = NoHeaders
  /\ cfg.RailwayXSRFToken # <<>>
  /\ cfg.RailwayCookies = <<>>

\* C32: a shutdown signal is acted upon only between events: Run returns only
\* from the select of its loop, with no handler in flight; a handler that has
\* begun goes through its provider calls and waits and sends its outcome
\* whether or not a signal is pending; and after Run has returned no event is
\* begun and nothing changes.
C32_ShutdownBetweenEvents ==
  [][/\ pc # "stopped"
     /\ pc' = "stopped" => (pc = "loop" /\ stop /\ run = NoRun)
     /\ pc \in Handling => pc' \in Handling \cup {"loop"}
     /\ (pc = "done" /\ pc' # "done") => (pc' = "loop" /\ sent' # <<>>)
     /\ offset' # offset => pc = "loop"]_vars

\* Run has returned after a signal that arrived while the outcome of a search
\* was still to be sent, and the outcome has been sent.
C32_Witness == pc = "stopped" /\ stop /\ sent # <<>> /\ run = NoRun

\* C33: in every reachable state a chat whose step is idle has an empty
\* origin, an empty destination and the zero date.
C33_IdleIsClean ==
  \A c \in DOMAIN userStates :
    userStates[c].CurrentStep = "" =>
      /\ userStates[c].FromStation = <<>>
      /\ userStates[c].ToStation = <<>>
      /\ userStates[c].SearchDate = ZeroTime

\* A chat is idle again after the outcome of a search was sent, while the
\* other chat has chosen its origin.
C33_Witness ==
  /\ pc = "loop"
  /\ sent # <<>>
  /\ DOMAIN userStates = Chats
  /\ \E a, b \in Chats :
       /\ userStates[a].CurrentStep = ""
       /\ userStates[b].CurrentStep = "select_to_station"

\* The date is the moment of a "start search" press or a day of the date
\* picker.
PressedOrPicked(date) ==
  /\ date.set
  /\ IF date.utc
     THEN \E day \in PickDays : date = TimeDate(day)
     ELSE date.abs \in StartNow..now

\* C34: whenever the guided flow issues a search its origin and destination
\* are non-empty and different and its date is set, to the moment of the
\* "start search" press or to the date picked; and a chat that awaits its
\* destination has a non-empty origin and such a date.
C34_GuidedSearchComplete ==
  /\ (pc \in Handling /\ run.caller = "handleStationSelection") =>
       /\ run.params.From # <<>>
       /\ run.params.To # <<>>
       /\ run.params.From # run.params.To
       /\ PressedOrPicked(run.params.Date)
  /\ \A c \in DOMAIN userStates :
       userStates[c].CurrentStep = "select_to_station" =>
         /\ userStates[c].FromStation # <<>>
         /\ PressedOrPicked(userStates[c].SearchDate)

\* A guided search with a picked date is in flight.
C34_Witness ==
  /\ pc = "attempt"
  /\ run.caller = "handleStationSelection"
  /\ run.params.Date.utc

\* C35: a date-picker selection changes the conversation state of a chat only
\* when the chat awaits its date; received in any other step it changes
\* neither the step nor the stored origin, destination and date.
C35_Claim ==
  [][\A c \in Chats, day \in PickDays :
       (OnDateCallback(c, day) /\ ~InStep(c, "select_date")) =>
         userStates'[c] = getUserState(userStates, c)[c]]_vars

\* C36: a destination equal to the stored origin, received while the chat
\* awaits its destination, leaves the conversation state of the chat
\* unchanged; the stored destination stays empty.
C36_Claim ==
  [][\A c \in Chats, t \in Texts :
       (/\ InStep(c, "select_to_station")
        /\ OnStepText(c, t)
        /\ TrimSpace(t) = userStates[c].FromStation) =>
         /\ userStates'[c] = userStates[c]
         /\ userStates'[c].ToStation = <<>>]_vars

\* C37: while a chat awaits its date, a text that is not a reserved label
\* resets the chat to idle, the provisional date discarded, and issues no
\* search, even when the text has the form of a shortcut.
C37_TextInDateStepResets ==
  [][\A c \in Chats, t \in AllTexts :
       (InStep(c, "select_date") /\ t \notin Labels
          /\ (OnStepText(c, t) \/ OnIdleText(c, t))) =>
         /\ userStates'[c].CurrentStep = ""
         /\ userStates'[c].FromStation = <<>>
         /\ userStates'[c].ToStation = <<>>
         /\ userStates'[c].SearchDate = ZeroTime
         /\ pc' = "loop"
         /\ run' = NoRun]_vars

\* A chat awaits its date, the tomorrow default stored.
C37_Witness ==
  /\ pc = "loop"
  /\ InStep(SearchChat, "select_date")
  /\ userStates[SearchChat].SearchDate.set

\* C38: within one search the provider receives at most 6 search POSTs and at
\* most 3 token requests: at most 3 attempts, each with at most one POST, one
\* token request and one retried POST, for every sequence of answers.
C38_RequestBudget ==
  /\ run.calls <= 3
  /\ run.call.posts <= 2
  /\ run.call.refreshes <= 1
  /\ run.call.refreshes = 1 => run.call.posts >= 1
  /\ run.posts <= 6
  /\ run.refreshes <= 3
  /\ run.posts <= 2 * run.calls
  /\ run.refreshes <= run.calls

\* A search that has used the whole budget.
C38_Witness ==
  /\ pc = "done"
  /\ run.calls = 3
  /\ run.posts = 6
  /\ run.refreshes = 3

\* C39: once a client exists, after any sequence of constructions and
\* language changes, its language is non-empty and equals the Accept-Language
\* entry of the headers its search requests carry, the unspecified language
\* standing for "uz"; and a change of the language leaves the token header
\* and the cookie string as they were.
C39_LanguageConsistent ==
  [][/\ pc' # "new" =>
          /\ client'.language # ""
          /\ client'.acceptLanguage = client'.language
     /\ \A language \in Languages :
          ((CreateClient(language) \/ ChangeLanguage(language)) =>
             client'.language = (IF language = "" THEN "uz" ELSE language))
     /\ (pc = "loop" /\ client'.language # client.language /\ pc' = "loop"
           /\ ~\E language \in Languages : CreateClient(language))
          => headers' = headers]_vars

\* The language was changed to Russian while the refreshed credentials of a
\* search are in place.
C39_Witness ==
  /\ pc = "loop"
  /\ client.language = "ru"
  /\ client.acceptLanguage = "ru"
  /\ headers.token = Tok(9)
  /\ headers.cookie.set

====
